---- MODULE Spec2Model ----
(***************************************************************************)
(* OHCI host controller driver core (uspace/drv/bus/usb/ohci/hc.c).        *)
(*                                                                         *)
(* The driver runs on cooperatively scheduled fibrils: a handler runs      *)
(* without interruption until it sleeps (async_usleep), blocks on the      *)
(* instance guard (fibril_mutex_lock) or calls out to a completion         *)
(* callback.  Each action below is one such uninterrupted segment.  A      *)
(* segment is written as the sequence of primitive statements the C code   *)
(* executes (register writes, list operations, lock/unlock); Exec runs the *)
(* statements in order over the machine state and logs every statement     *)
(* with the guard holder and the list-enable bits at the moment it ran.    *)
(* The log of the last segment is kept in the variable last.               *)
(***************************************************************************)
EXTENDS Integers, Sequences, FiniteSets, TLC

\* ---------------------------------------------------------------- bounds
MaxAddress == 1
MaxBatches == 3
MaxEps == 2
BandwidthSlots == 1
LiveBatches == 2

\* ------------------------------------------------------------- constants
TransferTypes == {"CONTROL", "BULK", "INTERRUPT", "ISOCHRONOUS"}
Directions == {"IN", "OUT", "BOTH"}
Tuples == [address : 1..MaxAddress, endpoint : {0}, direction : Directions]
\* the tuples of device endpoints; endpoint 0 of the root hub is registered
\* with both directions
DeviceTuples == {t \in Tuples : t.direction # "BOTH"}
NoTuple == [address |-> 0, endpoint |-> 0, direction |-> "-"]
Batches == 1..MaxBatches

ListEnableBits == {"PLE", "IE", "CLE", "BLE"}
HCFS == {"RESET", "RESUME", "OPERATIONAL", "SUSPEND"}
StatusBits == {"SO", "WDH", "SF", "UE", "RHSC"}
OHCI_USED_INTERRUPTS == {"SO", "WDH", "UE", "RHSC"}

\* values of the fm_interval register: the power-on default 0x2EDF and a
\* vendor-calibrated one
FmValues == {11999, 12010}
FMI_FI_SHIFT == 0
FMI_FI_MASK == 16383

Tasks == {"init", "irq"}

VARIABLES
    control,          \* registers->control: [en, ir, hcfs]
    command_status,   \* registers->command_status: set of bits
    fm_interval,      \* registers->fm_interval
    regs,             \* the other registers the driver writes
    guard,            \* instance->guard: "none" or the holding task
    pending_batches,  \* instance->pending_batches, in list order
    lists,            \* instance->lists[type]: the EDs linked, in order
    ep_manager,       \* instance->ep_manager: tuple -> registered endpoint
    free_bw,          \* instance->ep_manager: bandwidth left
    rh_address,       \* instance->rh.address
    manager,          \* instance->manager: the USB addresses handed out
    memory,           \* the endpoint lists initialised and instance->hcca
    batches,          \* life cycle of every transfer batch
    complete,         \* batches for which batch_is_complete() is true
    finished,         \* batches whose finish callback has returned, in order
    pc,               \* position of the init task and of the dispatcher
    fm_saved,         \* hc_start's local fm_interval, per task
    walk,             \* hc_interrupt's locals during the WDH walk
    rt,               \* state recorded before the last successful add
    last              \* the last segment run: call, result, statement log

vars == <<control, command_status, fm_interval, regs, guard, pending_batches,
          lists, ep_manager, free_bw, rh_address, manager, memory, batches, complete,
          finished, pc, fm_saved, walk, rt, last>>

\* ------------------------------------------------------ sequence helpers
Range(s) == {s[i] : i \in 1..Len(s)}

RemoveFromSeq(s, x) == SelectSeq(s, LAMBDA y : y # x)

Count(s, x) == Cardinality({i \in 1..Len(s) : s[i] = x})

IndexOf(s, x) == CHOOSE i \in 1..Len(s) : s[i] = x

\* current->next in the circular pending list; 0 stands for the list head
NextLink(s, x) ==
    IF x \in Range(s) /\ IndexOf(s, x) < Len(s) THEN s[IndexOf(s, x) + 1] ELSE 0

FirstLink(s) == IF Len(s) > 0 THEN s[1] ELSE 0

\* what hc_init_memory has built: nothing yet, and everything
MemoryNone == [lists |-> {}, hcca |-> FALSE]
MemoryReady == [lists |-> TransferTypes, hcca |-> TRUE]

\* ------------------------------------------------- the machine and its log
Machine ==
    [control |-> control, command_status |-> command_status,
     fm_interval |-> fm_interval, regs |-> regs, guard |-> guard,
     pending_batches |-> pending_batches, lists |-> lists,
     ep_manager |-> ep_manager, free_bw |-> free_bw, batches |-> batches,
     rh_address |-> rh_address, manager |-> manager, memory |-> memory,
     events |-> <<>>]

\* one primitive statement of the C code
St(op) ==
    [op |-> op, bits |-> {}, list |-> "-", ep |-> NoTuple, batch |-> 0,
     val |-> 0, addr |-> "-", hcfs |-> "-", reg |-> "-"]

StBits(op, bits) == [St(op) EXCEPT !.bits = bits]
StList(op, type, ep) == [St(op) EXCEPT !.list = type, !.ep = ep]
StBatch(op, b) == [St(op) EXCEPT !.batch = b]
StReg(reg, addr) == [St("reg_write") EXCEPT !.reg = reg, !.addr = addr]
StVal(op, v) == [St(op) EXCEPT !.val = v]
StHcfs(state) == [St("hcfs_set") EXCEPT !.hcfs = state]

\* the log entry of a statement: the statement, who ran it, who held the
\* guard and which list-enable bits were set when it ran
Event(m, st, self) ==
    [op |-> st.op, bits |-> st.bits, list |-> st.list, ep |-> st.ep,
     batch |-> st.batch, val |-> st.val, addr |-> st.addr, hcfs |-> st.hcfs,
     reg |-> st.reg, by |-> self, guard |-> m.guard, en |-> m.control.en]

NoEndpoint == [type |-> "-", hcd |-> FALSE]

IsPeriodic(type) == type \in {"INTERRUPT", "ISOCHRONOUS"}

\* bandwidth an endpoint of this type reserves in the registrar
BandwidthOf(type) == IF IsPeriodic(type) THEN 1 ELSE 0

\* endpoint_list_add_ep: link the ED at the end of the list
EndpointListAddEp(list, ep) == Append(list, ep)

\* endpoint_list_remove_ep: unlink the ED
EndpointListRemoveEp(list, ep) == RemoveFromSeq(list, ep)

\* the device keeper: an address is occupied from the moment
\* device_keeper_get_free_address returns it until it is released
KeeperOccupy(occupied, address) ==
    IF address > 0 THEN occupied \cup {address} ELSE occupied

KeeperRelease(occupied, address) == occupied \ {address}

\* a write to the interrupt_enable register: the bits written as one are
\* enabled, the bits written as zero keep their state (interrupt_disable is
\* the register that clears them)
InterruptEnableWrite(enabled, bits) == enabled \cup bits

\* a write to the interrupt_status register: the bits written as one are
\* acknowledged (cleared), the bits written as zero keep their state
InterruptStatusWrite(pending, bits) == pending \ bits

\* effect of one statement on the machine state
Effect(m, st, self) ==
    CASE st.op = "lock" -> [m EXCEPT !.guard = self]
      [] st.op = "unlock" -> [m EXCEPT !.guard = "none"]
      [] st.op = "control_and_not" ->
            [m EXCEPT !.control.en = m.control.en \ st.bits]
      [] st.op = "control_or" ->
            [m EXCEPT !.control.en = m.control.en \cup st.bits]
      [] st.op = "hcfs_set" -> [m EXCEPT !.control.hcfs = st.hcfs]
      [] st.op = "command_status_or" ->
            [m EXCEPT !.command_status = m.command_status \cup st.bits]
      [] st.op = "command_status_write" ->
            [m EXCEPT !.command_status = st.bits]
      [] st.op = "fm_interval_write" -> [m EXCEPT !.fm_interval = st.val]
      [] st.op = "periodic_start_write" ->
            [m EXCEPT !.regs.periodic_start = st.val]
      [] st.op = "interrupt_enable_write" ->
            [m EXCEPT !.regs.interrupt_enable =
                          InterruptEnableWrite(m.regs.interrupt_enable, st.bits)]
      [] st.op = "interrupt_status_write" ->
            [m EXCEPT !.regs.interrupt_status =
                          InterruptStatusWrite(m.regs.interrupt_status, st.bits)]
      [] st.op = "reg_write" -> [m EXCEPT !.regs[st.reg] = st.addr]
      [] st.op = "list_add" ->
            [m EXCEPT !.lists[st.list] = EndpointListAddEp(m.lists[st.list], st.ep)]
      [] st.op = "list_remove" ->
            [m EXCEPT !.lists[st.list] = EndpointListRemoveEp(m.lists[st.list], st.ep)]
      [] st.op = "register_ep" ->
            [m EXCEPT !.ep_manager[st.ep] = [type |-> st.list, hcd |-> TRUE],
                      !.free_bw = m.free_bw - BandwidthOf(st.list)]
      [] st.op = "unregister_ep" ->
            [m EXCEPT !.ep_manager[st.ep] = NoEndpoint,
                      !.free_bw = m.free_bw + BandwidthOf(m.ep_manager[st.ep].type)]
      [] st.op = "list_append" ->
            [m EXCEPT !.pending_batches = Append(m.pending_batches, st.batch)]
      [] st.op = "batch_commit" -> [m EXCEPT !.batches[st.batch] = "committed"]
      [] st.op = "list_remove_batch" ->
            [m EXCEPT !.pending_batches = RemoveFromSeq(m.pending_batches, st.batch)]
      [] st.op = "batch_finish" -> [m EXCEPT !.batches[st.batch] = "finishing"]
      [] st.op = "rh_request" -> [m EXCEPT !.batches[st.batch] = "rh"]
      [] st.op = "device_keeper_get_free_address" ->
            [m EXCEPT !.manager = KeeperOccupy(m.manager, st.val)]
      [] st.op = "usb_device_keeper_release" ->
            [m EXCEPT !.manager = KeeperRelease(m.manager, st.val)]
      [] st.op = "rh_address_write" -> [m EXCEPT !.rh_address = st.val]
      [] st.op = "endpoint_list_init" ->
            [m EXCEPT !.memory.lists = m.memory.lists \cup {st.list}]
      [] st.op = "endpoint_list_fini" ->
            [m EXCEPT !.memory.lists = m.memory.lists \ {st.list}]
      [] st.op = "malloc32" -> [m EXCEPT !.memory.hcca = TRUE]
      [] OTHER -> m

Apply(m, st, self) ==
    [Effect(m, st, self) EXCEPT !.events = Append(m.events, Event(m, st, self))]

RECURSIVE Exec(_, _, _)
\* the statements of sts applied in order (the machine after each
\* statement and the statements left are bound as values, so that each is
\* computed once)
Exec(m, sts, self) ==
    IF sts = <<>> THEN m
    ELSE CHOOSE r \in {Exec(x, t, self) :
                          x \in {Apply(m, Head(sts), self)},
                          t \in {Tail(sts)}} : TRUE

\* statements that change the pending-batch set, an endpoint list or the
\* list-enable bits of the control register
ListMutations == {"list_add", "list_remove"}
PendingMutations == {"list_append", "list_remove_batch"}
EnableWrites == {"control_and_not", "control_or"}

\* list-enable bits the controller consults before walking a list
EnableBitsOf(type) ==
    CASE type = "CONTROL" -> {"CLE"}
      [] type = "BULK" -> {"BLE"}
      [] OTHER -> {"PLE", "IE"}

\* ------------------------------------------------------ endpoint registrar
RegisteredTuples(m) == {t \in Tuples : m.ep_manager[t] # NoEndpoint}

\* usb_endpoint_manager_register_ep: the code it returns.  regfail is the
\* registrar's own allocation failing.
RegisterEpResult(m, ep, type, regfail) ==
    IF BandwidthOf(type) > m.free_bw THEN "EOVERFLOW"
    ELSE IF m.ep_manager[ep] # NoEndpoint THEN "EEXISTS"
    ELSE IF regfail THEN "ENOMEM"
    ELSE "EOK"

\* outcomes of endpoint_get / hcd_endpoint_assign: the allocator hands out at
\* most MaxEps endpoint structures
AllocOutcomes(m) ==
    IF Cardinality(RegisteredTuples(m)) >= MaxEps THEN {"ep_null"}
    ELSE {"ok", "ep_null", "hcd_null"}


\* hc_add_endpoint linking the ED before it clears the list-enable bit
HcAddEndpointEnqueueLinkFirst(type, ep) ==
    << StList("list_add", type, ep),
       StBits("control_and_not", EnableBitsOf(type)),
       StBits("control_or", EnableBitsOf(type)) >>

\* ------------------------------------------------------------ hc_add_endpoint
\* the switch that enqueues hcd_ep
HcAddEndpointEnqueue(type, ep) ==
    CASE type = "CONTROL" ->
            << StBits("control_and_not", {"CLE"}),
               StList("list_add", type, ep),
               StReg("control_current", "0"),
               StBits("control_or", {"CLE"}) >>
      [] type = "BULK" ->
            << StBits("control_and_not", {"BLE"}),
               StList("list_add", type, ep),
               StBits("control_or", {"BLE"}) >>
      [] OTHER ->
            << StBits("control_and_not", {"PLE", "IE"}),
               StList("list_add", type, ep),
               StBits("control_or", {"PLE", "IE"}) >>


\* hc_add_endpoint enqueueing before it looks at the registrar's answer
HcAddEndpointEnqueueEarly(m, ep, type, alloc, regfail) ==
    IF alloc = "ep_null" THEN
        [sts |-> << St("endpoint_get") >>, ret |-> "ENOMEM"]
    ELSE IF alloc = "hcd_null" THEN
        [sts |-> << St("endpoint_get"), St("hcd_endpoint_assign"),
                    St("endpoint_destroy") >>,
         ret |-> "ENOMEM"]
    ELSE IF RegisterEpResult(m, ep, type, regfail) # "EOK" THEN
        [sts |-> << St("endpoint_get"), St("hcd_endpoint_assign"),
                    St("usb_endpoint_manager_register_ep") >>
                 \o HcAddEndpointEnqueue(type, ep)
                 \o << St("hcd_endpoint_clear"), St("endpoint_destroy") >>,
         ret |-> RegisterEpResult(m, ep, type, regfail)]
    ELSE
        [sts |-> << St("endpoint_get"), St("hcd_endpoint_assign"),
                    StList("register_ep", type, ep) >>
                 \o HcAddEndpointEnqueue(type, ep),
         ret |-> "EOK"]

\* the statements of one call and the code it returns
HcAddEndpoint(m, ep, type, alloc, regfail) ==
    IF alloc = "ep_null" THEN
        [sts |-> << St("endpoint_get") >>, ret |-> "ENOMEM"]
    ELSE IF alloc = "hcd_null" THEN
        [sts |-> << St("endpoint_get"), St("hcd_endpoint_assign"),
                    St("endpoint_destroy") >>,
         ret |-> "ENOMEM"]
    ELSE IF RegisterEpResult(m, ep, type, regfail) # "EOK" THEN
        [sts |-> << St("endpoint_get"), St("hcd_endpoint_assign"),
                    St("usb_endpoint_manager_register_ep"),
                    St("hcd_endpoint_clear"), St("endpoint_destroy") >>,
         ret |-> RegisterEpResult(m, ep, type, regfail)]
    ELSE
        [sts |-> << St("endpoint_get"), St("hcd_endpoint_assign"),
                    StList("register_ep", type, ep) >>
                 \o HcAddEndpointEnqueue(type, ep),
         ret |-> "EOK"]


\* hc_remove_endpoint whose bulk case forgets to unlink the ED
HcRemoveEndpointDequeueBulkKept(type, ep) ==
    CASE type = "CONTROL" ->
            << StBits("control_and_not", {"CLE"}),
               StList("list_remove", type, ep),
               StReg("control_current", "0"),
               StBits("control_or", {"CLE"}) >>
      [] type = "BULK" ->
            << StBits("control_and_not", {"BLE"}),
               StBits("control_or", {"BLE"}) >>
      [] type \in {"ISOCHRONOUS", "INTERRUPT"} ->
            << StBits("control_and_not", {"PLE", "IE"}),
               StList("list_remove", type, ep),
               StBits("control_or", {"PLE", "IE"}) >>
      [] OTHER -> << >>

\* --------------------------------------------------------- hc_remove_endpoint
\* the switch that dequeues hcd_ep
HcRemoveEndpointDequeue(type, ep) ==
    CASE type = "CONTROL" ->
            << StBits("control_and_not", {"CLE"}),
               StList("list_remove", type, ep),
               StReg("control_current", "0"),
               StBits("control_or", {"CLE"}) >>
      [] type = "BULK" ->
            << StBits("control_and_not", {"BLE"}),
               StList("list_remove", type, ep),
               StBits("control_or", {"BLE"}) >>
      [] type \in {"ISOCHRONOUS", "INTERRUPT"} ->
            << StBits("control_and_not", {"PLE", "IE"}),
               StList("list_remove", type, ep),
               StBits("control_or", {"PLE", "IE"}) >>
      [] OTHER -> << >>


\* hc_remove_endpoint returning ENOENT with the guard still locked
HcRemoveEndpointNoUnlock(m, ep) ==
    IF m.ep_manager[ep] = NoEndpoint THEN
        [sts |-> << St("lock"), St("usb_endpoint_manager_get_ep") >>,
         ret |-> "ENOENT"]
    ELSE
        [sts |-> << St("lock"), St("usb_endpoint_manager_get_ep") >>
                 \o (IF m.ep_manager[ep].hcd
                     THEN HcRemoveEndpointDequeue(m.ep_manager[ep].type, ep)
                          \o << St("hcd_endpoint_clear") >>
                     ELSE << St("usb_log_warning") >>)
                 \o << StList("unregister_ep", m.ep_manager[ep].type, ep),
                       St("unlock") >>,
         ret |-> "EOK"]

HcRemoveEndpoint(m, ep) ==
    IF m.ep_manager[ep] = NoEndpoint THEN
        [sts |-> << St("lock"), St("usb_endpoint_manager_get_ep"),
                    St("unlock") >>,
         ret |-> "ENOENT"]
    ELSE
        [sts |-> << St("lock"), St("usb_endpoint_manager_get_ep") >>
                 \o (IF m.ep_manager[ep].hcd
                     THEN HcRemoveEndpointDequeue(m.ep_manager[ep].type, ep)
                          \o << St("hcd_endpoint_clear") >>
                     ELSE << St("usb_log_warning") >>)
                 \o << StList("unregister_ep", m.ep_manager[ep].type, ep),
                       St("unlock") >>,
         ret |-> "EOK"]


\* ------------------------------------------------------------- hc_register_hub
\* endpoint 0 of the root hub, registered with both directions
HubEndpoint(address) ==
    [address |-> address, endpoint |-> 0, direction |-> "BOTH"]

\* device_keeper_get_free_address: a free address, or a value that is not an
\* address (a negative error code, or zero) when every address is occupied
FreeAddressOutcomes(m) ==
    IF (1..MaxAddress) \ m.manager = {} THEN {-1, 0}
    ELSE {CHOOSE a \in (1..MaxAddress) \ m.manager :
             \A o \in (1..MaxAddress) \ m.manager : a <= o}

\* "return hub_address": the allocator's value read as an error code; zero
\* is EOK
ReturnedAddressCode(hub_address) ==
    IF hub_address = 0 THEN "EOK" ELSE "ENOSPC"

\* the DDF calls of hc_register_hub: both succeed, or one of them fails
DdfOutcomes == {"ok", "ddf_fun_add_match_id", "ddf_fun_bind"}

\* CHECK_RET_RELEASE leaving the hub's endpoint in place when it fails
HcRegisterHubReleaseOnly(m, hub_address, alloc, regfail, ddf) ==
    IF hub_address <= 0 THEN
        [sts |-> << StVal("device_keeper_get_free_address", hub_address) >>,
         ret |-> ReturnedAddressCode(hub_address), failed |-> "device_keeper_get_free_address"]
    ELSE
        LET pre == << StVal("device_keeper_get_free_address", hub_address),
                      StVal("rh_address_write", hub_address),
                      StVal("usb_device_keeper_bind", hub_address) >>
            add == HcAddEndpoint(Exec(m, pre, "caller"), HubEndpoint(hub_address),
                                 "CONTROL", alloc, regfail)
            release == << StVal("usb_device_keeper_release", hub_address) >>
        IN IF add.ret # "EOK" THEN
               [sts |-> pre \o add.sts \o release,
                ret |-> add.ret, failed |-> "hc_add_endpoint"]
           ELSE IF ddf = "ddf_fun_add_match_id" THEN
               [sts |-> pre \o add.sts \o << St("ddf_fun_add_match_id") >>
                        \o release,
                ret |-> "ENOMEM", failed |-> ddf]
           ELSE IF ddf = "ddf_fun_bind" THEN
               [sts |-> pre \o add.sts
                        \o << St("ddf_fun_add_match_id"), St("ddf_fun_bind") >>
                        \o release,
                ret |-> "EREFUSED", failed |-> ddf]
           ELSE
               [sts |-> pre \o add.sts
                        \o << St("ddf_fun_add_match_id"), St("ddf_fun_bind") >>,
                ret |-> "EOK", failed |-> "-"]

\* hc_register_hub; CHECK_RET_RELEASE removes the hub's endpoint and releases
\* the hub's address before it returns the failed step's code
HcRegisterHub(m, hub_address, alloc, regfail, ddf) ==
    IF hub_address <= 0 THEN
        [sts |-> << StVal("device_keeper_get_free_address", hub_address) >>,
         ret |-> ReturnedAddressCode(hub_address), failed |-> "device_keeper_get_free_address"]
    ELSE
        LET pre == << StVal("device_keeper_get_free_address", hub_address),
                      StVal("rh_address_write", hub_address),
                      StVal("usb_device_keeper_bind", hub_address) >>
            add == HcAddEndpoint(Exec(m, pre, "caller"), HubEndpoint(hub_address),
                                 "CONTROL", alloc, regfail)
            added == Exec(m, pre \o add.sts, "caller")
            release == HcRemoveEndpoint(added, HubEndpoint(hub_address)).sts
                       \o << StVal("usb_device_keeper_release", hub_address) >>
        IN IF add.ret # "EOK" THEN
               [sts |-> pre \o add.sts \o release,
                ret |-> add.ret, failed |-> "hc_add_endpoint"]
           ELSE IF ddf = "ddf_fun_add_match_id" THEN
               [sts |-> pre \o add.sts \o << St("ddf_fun_add_match_id") >>
                        \o release,
                ret |-> "ENOMEM", failed |-> ddf]
           ELSE IF ddf = "ddf_fun_bind" THEN
               [sts |-> pre \o add.sts
                        \o << St("ddf_fun_add_match_id"), St("ddf_fun_bind") >>
                        \o release,
                ret |-> "EREFUSED", failed |-> ddf]
           ELSE
               [sts |-> pre \o add.sts
                        \o << St("ddf_fun_add_match_id"), St("ddf_fun_bind") >>,
                ret |-> "EOK", failed |-> "-"]

\* --------------------------------------------------------- hc_get_endpoint
HcGetEndpoint(m, ep) ==
    [sts |-> << St("lock"), St("usb_endpoint_manager_get_ep"), St("unlock") >>,
     ret |-> IF m.ep_manager[ep] = NoEndpoint THEN "NULL" ELSE "ep"]

\* fibril_mutex_lock as its first statement makes a handler wait for as long
\* as any task, the caller included, holds the guard
Blocks(m, sts) == sts # << >> /\ Head(sts).op = "lock" /\ m.guard # "none"

\* hc_schedule kicking the control list for bulk batches as well
HcScheduleKickControlOnly(type) ==
    CASE type = "CONTROL" -> << StBits("command_status_or", {"CLF"}) >>
      [] type = "BULK" -> << StBits("command_status_or", {"CLF"}) >>
      [] OTHER -> << >>

\* ----------------------------------------------------------------- hc_schedule
\* control and bulk schedules need a kick to start working
HcScheduleKick(type) ==
    CASE type = "CONTROL" -> << StBits("command_status_or", {"CLF"}) >>
      [] type = "BULK" -> << StBits("command_status_or", {"BLF"}) >>
      [] OTHER -> << >>

\* hc_schedule forwarding to the root hub and then queueing the batch as well
HcScheduleForwardAndAppend(b, address, type, rh) ==
    [sts |-> (IF address = rh THEN << StBatch("rh_request", b) >> ELSE << >>)
             \o << St("lock"), StBatch("list_append", b),
                    StBatch("batch_commit", b) >>
             \o HcScheduleKick(type)
             \o << St("unlock") >>,
     ret |-> "EOK"]

HcSchedule(b, address, type, rh) ==
    IF address = rh THEN
        [sts |-> << StBatch("rh_request", b) >>, ret |-> "EOK"]
    ELSE
        [sts |-> << St("lock"), StBatch("list_append", b),
                    StBatch("batch_commit", b) >>
                 \o HcScheduleKick(type)
                 \o << St("unlock") >>,
         ret |-> "EOK"]

\* -------------------------------------------------------------------- hc_start
FrameLength(fm) == (fm \div (2 ^ FMI_FI_SHIFT)) % (FMI_FI_MASK + 1)

\* up to the reset spin: save fm_interval, pulse HCR
HcStartReset(m) ==
    << StVal("fm_interval_read", m.fm_interval),
       StBits("command_status_write", {"HCR"}) >>

\* hc_start taking nine tenths by multiplying before it divides
HcStartRunMultiplyFirst(fm) ==
    << StVal("fm_interval_write", fm),
       StReg("hcca", "hcca_pa"),
       StReg("bulk_head", "bulk_head_pa"),
       StReg("control_head", "control_head_pa"),
       StBits("control_or", {"PLE", "IE", "CLE", "BLE"}),
       StBits("interrupt_enable_write", OHCI_USED_INTERRUPTS),
       StBits("interrupt_enable_write", {"MI"}),
       StVal("periodic_start_write", (FrameLength(fm) * 9) \div 10),
       StHcfs("OPERATIONAL") >>

\* hc_start enabling the lists before it has published the HCCA and the heads
HcStartRunEnableFirst(fm) ==
    << StVal("fm_interval_write", fm),
       StBits("control_or", {"PLE", "IE", "CLE", "BLE"}),
       StReg("hcca", "hcca_pa"),
       StReg("bulk_head", "bulk_head_pa"),
       StReg("control_head", "control_head_pa"),
       StBits("interrupt_enable_write", OHCI_USED_INTERRUPTS),
       StBits("interrupt_enable_write", {"MI"}),
       StVal("periodic_start_write", (FrameLength(fm) \div 10) * 9),
       StHcfs("OPERATIONAL") >>

\* hc_start enabling the handled interrupts without the master enable
HcStartRunNoMasterEnable(fm) ==
    << StVal("fm_interval_write", fm),
       StReg("hcca", "hcca_pa"),
       StReg("bulk_head", "bulk_head_pa"),
       StReg("control_head", "control_head_pa"),
       StBits("control_or", {"PLE", "IE", "CLE", "BLE"}),
       StBits("interrupt_enable_write", OHCI_USED_INTERRUPTS),
       StVal("periodic_start_write", (FrameLength(fm) \div 10) * 9),
       StHcfs("OPERATIONAL") >>

\* after the reset spin has seen HCR clear
HcStartRun(fm) ==
    << StVal("fm_interval_write", fm),
       StReg("hcca", "hcca_pa"),
       StReg("bulk_head", "bulk_head_pa"),
       StReg("control_head", "control_head_pa"),
       StBits("control_or", {"PLE", "IE", "CLE", "BLE"}),
       StBits("interrupt_enable_write", OHCI_USED_INTERRUPTS),
       StBits("interrupt_enable_write", {"MI"}),
       StVal("periodic_start_write", (FrameLength(fm) \div 10) * 9),
       StHcfs("OPERATIONAL") >>

\* ------------------------------------------------------------- hc_gain_control
HcGainControlLegacy(legacy) ==
    IF legacy THEN << StBits("legacy_and", {"A20State"}) >> ELSE << >>


\* hc_gain_control leaving a suspended controller as the BIOS left it
HcGainControlNoResume(m, legacy) ==
    IF m.control.ir THEN
        [sts |-> HcGainControlLegacy(legacy)
                 \o << StBits("command_status_or", {"OCR"}) >>,
         next |-> "smm_spin"]
    ELSE IF m.control.hcfs # "RESET" THEN
        [sts |-> HcGainControlLegacy(legacy), next |-> "gained"]
    ELSE
        [sts |-> HcGainControlLegacy(legacy)
                 \o << StVal("async_usleep", 50000) >>,
         next |-> "gained"]

\* hc_gain_control assigning OCR to command_status instead of or-ing it in
HcGainControlOcrOverwrite(m, legacy) ==
    IF m.control.ir THEN
        [sts |-> HcGainControlLegacy(legacy)
                 \o << StBits("command_status_write", {"OCR"}) >>,
         next |-> "smm_spin"]
    ELSE IF m.control.hcfs # "RESET" THEN
        IF m.control.hcfs = "OPERATIONAL" THEN
            [sts |-> HcGainControlLegacy(legacy), next |-> "gained"]
        ELSE
            [sts |-> HcGainControlLegacy(legacy)
                     \o << StHcfs("RESUME"), StVal("async_usleep", 20000) >>,
             next |-> "gained"]
    ELSE
        [sts |-> HcGainControlLegacy(legacy)
                 \o << StVal("async_usleep", 50000) >>,
         next |-> "gained"]

\* hc_gain_control waiting for the SMM driver without asking it to leave
HcGainControlNoRequest(m, legacy) ==
    IF m.control.ir THEN
        [sts |-> HcGainControlLegacy(legacy), next |-> "smm_spin"]
    ELSE IF m.control.hcfs # "RESET" THEN
        IF m.control.hcfs = "OPERATIONAL" THEN
            [sts |-> HcGainControlLegacy(legacy), next |-> "gained"]
        ELSE
            [sts |-> HcGainControlLegacy(legacy)
                     \o << StHcfs("RESUME"), StVal("async_usleep", 20000) >>,
             next |-> "gained"]
    ELSE
        [sts |-> HcGainControlLegacy(legacy)
                 \o << StVal("async_usleep", 50000) >>,
         next |-> "gained"]

\* up to the first suspension; next is where the function continues
HcGainControl(m, legacy) ==
    IF m.control.ir THEN
        [sts |-> HcGainControlLegacy(legacy)
                 \o << StBits("command_status_or", {"OCR"}) >>,
         next |-> "smm_spin"]
    ELSE IF m.control.hcfs # "RESET" THEN
        IF m.control.hcfs = "OPERATIONAL" THEN
            [sts |-> HcGainControlLegacy(legacy), next |-> "gained"]
        ELSE
            [sts |-> HcGainControlLegacy(legacy)
                     \o << StHcfs("RESUME"), StVal("async_usleep", 20000) >>,
             next |-> "gained"]
    ELSE
        [sts |-> HcGainControlLegacy(legacy)
                 \o << StVal("async_usleep", 50000) >>,
         next |-> "gained"]

\* after the spin has seen interrupt routing clear
HcGainControlTaken ==
    << StHcfs("RESET"), StVal("async_usleep", 50000) >>


\* hc_interrupt without the early return, walking the batches on any status
HcInterruptEntryAlwaysWalk(m, status) ==
    [sts |-> (IF "RHSC" \in status THEN << St("rh_interrupt") >> ELSE << >>)
             \o << St("lock") >>,
     next |-> "walk"]

\* ---------------------------------------------------------------- hc_interrupt
\* from entry to the WDH walk, to the reset spin of hc_start, or to the return
HcInterruptEntry(m, status) ==
    IF status \ {"SF"} = {} THEN
        [sts |-> << >>, next |-> "idle"]
    ELSE
        [sts |-> (IF "RHSC" \in status THEN << St("rh_interrupt") >> ELSE << >>)
                 \o (IF "WDH" \in status THEN << St("lock") >>
                     ELSE IF "UE" \in status THEN HcStartReset(m)
                     ELSE << >>),
         next |-> IF "WDH" \in status THEN "walk"
                  ELSE IF "UE" \in status THEN "reset_spin"
                  ELSE "idle"]


\* ------------------------------------------------- the two delivery paths
\* the IRQ program skipping only the write-back when no handled bit is set
ohci_irq_commands_skip_one ==
    << [cmd |-> "CMD_MEM_READ_32", srcarg |-> 0, dstarg |-> 1, value |-> 0,
        addr |-> "NULL"],
       [cmd |-> "CMD_BTEST", srcarg |-> 1, dstarg |-> 2,
        value |-> OHCI_USED_INTERRUPTS, addr |-> "NULL"],
       [cmd |-> "CMD_PREDICATE", srcarg |-> 2, dstarg |-> 0, value |-> 1,
        addr |-> "NULL"],
       [cmd |-> "CMD_MEM_WRITE_A_32", srcarg |-> 1, dstarg |-> 0, value |-> 0,
        addr |-> "NULL"],
       [cmd |-> "CMD_ACCEPT", srcarg |-> 0, dstarg |-> 0, value |-> 0,
        addr |-> "NULL"] >>

\* ohci_irq_commands: the IRQ program, the two addresses not yet filled in
\* (command k of the C array is element k + 1 of the sequence)
ohci_irq_commands ==
    << [cmd |-> "CMD_MEM_READ_32", srcarg |-> 0, dstarg |-> 1, value |-> 0,
        addr |-> "NULL"],
       [cmd |-> "CMD_BTEST", srcarg |-> 1, dstarg |-> 2,
        value |-> OHCI_USED_INTERRUPTS, addr |-> "NULL"],
       [cmd |-> "CMD_PREDICATE", srcarg |-> 2, dstarg |-> 0, value |-> 2,
        addr |-> "NULL"],
       [cmd |-> "CMD_MEM_WRITE_A_32", srcarg |-> 1, dstarg |-> 0, value |-> 0,
        addr |-> "NULL"],
       [cmd |-> "CMD_ACCEPT", srcarg |-> 0, dstarg |-> 0, value |-> 0,
        addr |-> "NULL"] >>

\* hc_get_irq_commands: cmd_count is the room in cmds[] counted in commands,
\* reg_size_ok tells that the register area is large enough, pio is what
\* pio_enable returns; on success cmds[0] and cmds[3] address
\* registers->interrupt_status
HcGetIrqCommands(cmd_count, reg_size_ok, pio) ==
    IF cmd_count < Len(ohci_irq_commands) \/ ~reg_size_ok THEN
        [ret |-> "EOVERFLOW", cmds |-> << >>]
    ELSE IF pio # "EOK" THEN
        [ret |-> pio, cmds |-> << >>]
    ELSE
        [ret |-> "EOK",
         cmds |-> [ohci_irq_commands EXCEPT
                      ![1].addr = "interrupt_status",
                      ![4].addr = "interrupt_status"]]

\* the kernel reading and writing the word a memory command addresses
IrqCodeRead(m, addr) ==
    IF addr = "interrupt_status" THEN m.regs.interrupt_status ELSE {}

IrqCodeReadOp(addr) ==
    IF addr = "interrupt_status" THEN "interrupt_status_read" ELSE "unmapped_read"

IrqCodeWriteOp(addr) ==
    IF addr = "interrupt_status" THEN "interrupt_status_write" ELSE "unmapped_write"

\* the kernel interpreting an IRQ program from command i on: MEM_READ_32
\* loads scratch[dstarg], BTEST stores scratch[srcarg] & value, PREDICATE
\* skips the next value commands when scratch[srcarg] is zero,
\* MEM_WRITE_A_32 stores scratch[srcarg], ACCEPT wakes the driver with
\* scratch[1]; running off the end declines
RECURSIVE IrqCodeRun(_, _, _, _, _)
IrqCodeRun(code, i, scratch, m, sts) ==
    IF i > Len(code) THEN
        [sts |-> sts, accept |-> FALSE, status |-> scratch[1]]
    ELSE
        LET c == code[i]
        IN CASE c.cmd = "CMD_MEM_READ_32" ->
                  IrqCodeRun(code, i + 1,
                             [scratch EXCEPT ![c.dstarg] = IrqCodeRead(m, c.addr)],
                             m,
                             Append(sts, StBits(IrqCodeReadOp(c.addr),
                                                IrqCodeRead(m, c.addr))))
             [] c.cmd = "CMD_BTEST" ->
                  IrqCodeRun(code, i + 1,
                             [scratch EXCEPT ![c.dstarg] =
                                 scratch[c.srcarg] \cap c.value],
                             m, sts)
             [] c.cmd = "CMD_PREDICATE" ->
                  IrqCodeRun(code,
                             IF scratch[c.srcarg] = {} THEN i + 1 + c.value
                             ELSE i + 1,
                             scratch, m, sts)
             [] c.cmd = "CMD_MEM_WRITE_A_32" ->
                  IrqCodeRun(code, i + 1, scratch, m,
                             Append(sts, StBits(IrqCodeWriteOp(c.addr),
                                                scratch[c.srcarg])))
             [] c.cmd = "CMD_ACCEPT" ->
                  [sts |-> sts, accept |-> TRUE, status |-> scratch[1]]
             [] OTHER ->
                  [sts |-> sts, accept |-> FALSE, status |-> scratch[1]]

\* the program the kernel holds once hc_get_irq_commands has succeeded
IrqCode == HcGetIrqCommands(Len(ohci_irq_commands), TRUE, "EOK").cmds

\* the IRQ commands in the kernel: read the status register, test it
\* against the handled interrupts, and only when one of them is pending
\* write the value read back and accept (hc_interrupt is then called with
\* the value read)
IrqCommands(m) == IrqCodeRun(IrqCode, 1, [a \in 1..2 |-> {}], m, << >>)

\* the polling fibril calling hc_interrupt without acknowledging the status
InterruptEmulatorNoAck(m) ==
    [sts |-> << StBits("interrupt_status_read", m.regs.interrupt_status) >>,
     accept |-> TRUE, status |-> m.regs.interrupt_status]

\* one iteration of interrupt_emulator: read the status, write it back, call
\* hc_interrupt with it
InterruptEmulator(m) ==
    [sts |-> << StBits("interrupt_status_read", m.regs.interrupt_status),
                StBits("interrupt_status_write", m.regs.interrupt_status) >>,
     accept |-> TRUE, status |-> m.regs.interrupt_status]

DeliveryPaths == {"ohci_irq_commands", "interrupt_emulator"}

\* a delivery from the status register to the first suspension of
\* hc_interrupt (or to its return)
Delivery(path, m) ==
    LET c == IF path = "ohci_irq_commands" THEN IrqCommands(m)
             ELSE InterruptEmulator(m)
        h == IF c.accept THEN HcInterruptEntry(m, c.status)
             ELSE [sts |-> << >>, next |-> "idle"]
    IN [sts |-> c.sts \o h.sts, next |-> h.next, accept |-> c.accept,
        status |-> c.status]

\* the walk finishing a batch without unlinking it
HcInterruptWalkNoRemove(current, iscomplete) ==
    IF iscomplete
    THEN << StBatch("batch_is_complete", current),
            StBatch("batch_finish", current) >>
    ELSE << StBatch("batch_is_complete", current) >>

\* the walk reaping every batch, complete or not
HcInterruptWalkReapAll(current, iscomplete) ==
    << StBatch("batch_is_complete", current),
       StBatch("list_remove_batch", current),
       StBatch("batch_finish", current) >>

\* the walk releasing the guard before it calls the finish callback
HcInterruptWalkUnlockedFinish(current, iscomplete) ==
    IF iscomplete
    THEN << StBatch("batch_is_complete", current),
            StBatch("list_remove_batch", current),
            St("unlock"),
            StBatch("batch_finish", current) >>
    ELSE << StBatch("batch_is_complete", current) >>

\* one iteration of the walk over the pending batches
HcInterruptWalk(current, iscomplete) ==
    IF iscomplete
    THEN << StBatch("batch_is_complete", current),
            StBatch("list_remove_batch", current),
            StBatch("batch_finish", current) >>
    ELSE << StBatch("batch_is_complete", current) >>

\* hc_interrupt taking the UE branch only when it has not walked the batches
HcInterruptAfterWalkNoStart(m, status) ==
    [sts |-> << St("unlock") >>, next |-> "idle"]

\* the walk is over: release the guard, then the UE branch
HcInterruptAfterWalk(m, status) ==
    [sts |-> << St("unlock") >>
             \o (IF "UE" \in status THEN HcStartReset(m) ELSE << >>),
     next |-> IF "UE" \in status THEN "reset_spin" ELSE "idle"]

\* ---------------------------------------------------------------- hc_init
\* the order in which hc_init_transfer_lists sets the lists up
ListSetupOrder == << "ISOCHRONOUS", "INTERRUPT", "CONTROL", "BULK" >>

\* hc_init_transfer_lists: failing is the position of the list whose
\* endpoint_list_init fails, 0 when all four succeed; the failure path
\* finalises all four lists
HcInitTransferLists(failing) ==
    IF failing = 0 THEN
        [sts |-> [i \in 1..4 |-> StList("endpoint_list_init", ListSetupOrder[i], NoTuple)]
                 \o << St("endpoint_list_set_next") >>,
         ret |-> "EOK"]
    ELSE
        [sts |-> [i \in 1..(failing - 1) |->
                     StList("endpoint_list_init", ListSetupOrder[i], NoTuple)]
                 \o << StList("endpoint_list_init_fails", ListSetupOrder[failing],
                               NoTuple),
                       StList("endpoint_list_fini", "ISOCHRONOUS", NoTuple),
                       StList("endpoint_list_fini", "INTERRUPT", NoTuple),
                       StList("endpoint_list_fini", "CONTROL", NoTuple),
                       StList("endpoint_list_fini", "BULK", NoTuple) >>,
         ret |-> "ENOMEM"]

\* hc_init_memory: the lists, then the HCCA; hcca_ok tells whether malloc32
\* returns a block
HcInitMemory(failing, hcca_ok) ==
    LET l == HcInitTransferLists(failing)
    IN IF l.ret # "EOK" THEN
           [sts |-> << St("bzero_rh") >> \o l.sts, ret |-> l.ret]
       ELSE IF ~hcca_ok THEN
           [sts |-> << St("bzero_rh") >> \o l.sts \o << St("malloc32_fails") >>,
            ret |-> "ENOMEM"]
       ELSE
           [sts |-> << St("bzero_rh") >> \o l.sts
                    \o << St("malloc32"), St("hcca_fill") >>,
            ret |-> "EOK"]

\* hc_init up to the call of hc_gain_control: pio and epm are the codes
\* pio_enable and usb_endpoint_manager_init return; failed is the call
\* that made hc_init return early
HcInit(pio, epm, failing, hcca_ok) ==
    IF pio # "EOK" THEN
        [sts |-> << St("pio_enable") >>, ret |-> pio, failed |-> "pio_enable"]
    ELSE IF epm # "EOK" THEN
        [sts |-> << St("pio_enable"), St("list_initialize"),
                    St("usb_device_keeper_init"),
                    St("usb_endpoint_manager_init") >>,
         ret |-> epm, failed |-> "usb_endpoint_manager_init"]
    ELSE
        LET mem == HcInitMemory(failing, hcca_ok)
            pre == << St("pio_enable"), St("list_initialize"),
                      St("usb_device_keeper_init"),
                      St("usb_endpoint_manager_init") >>
        IN IF mem.ret # "EOK" THEN
               [sts |-> pre \o mem.sts, ret |-> mem.ret,
                failed |-> "hc_init_memory"]
           ELSE
               [sts |-> pre \o mem.sts \o << St("fibril_mutex_initialize") >>,
                ret |-> "EOK", failed |-> "-"]

\* hc_init between hc_gain_control and rh_init: without interrupts the
\* polling fibril is created and made ready
HcInitEmulator(interrupts) ==
    IF interrupts THEN << >>
    ELSE << St("fibril_create"), St("fibril_add_ready") >>

\* ------------------------------------------------------------------- state
WalkIdle ==
    [status |-> {}, current |-> 0, batch |-> 0, visited |-> << >>,
     pend0 |-> << >>]

RtNone ==
    [valid |-> FALSE, ep |-> NoTuple, type |-> "-", ep_manager |-> [t \in Tuples |-> NoEndpoint],
     lists |-> [y \in TransferTypes |-> << >>], en |-> {}, free_bw |-> 0]

Call(op, task) ==
    [op |-> op, task |-> task, ep |-> NoTuple, type |-> "-", status |-> {},
     batch |-> 0, address |-> 0, ret |-> "-",
     events |-> << >>]

Init ==
    /\ control \in [en : {{}, ListEnableBits}, ir : BOOLEAN, hcfs : HCFS]
    /\ command_status \in {{}, {"CLF"}}
    /\ fm_interval \in FmValues
    /\ regs = [hcca |-> "0", bulk_head |-> "0", control_head |-> "0",
               control_current |-> "0", interrupt_enable |-> {},
               interrupt_status |-> {}, periodic_start |-> 0]
    /\ guard = "none"
    /\ pending_batches = << >>
    /\ lists = [y \in TransferTypes |-> << >>]
    /\ ep_manager = [t \in Tuples |-> NoEndpoint]
    /\ free_bw = BandwidthSlots
    /\ rh_address = 0
    /\ manager = {}
    /\ memory = MemoryReady
    /\ batches = [b \in Batches |-> "new"]
    /\ complete = {}
    /\ finished = << >>
    /\ pc = [t \in Tasks |-> IF t = "init" THEN "gain" ELSE "idle"]
    /\ fm_saved = [t \in Tasks |-> 0]
    /\ walk = WalkIdle
    /\ rt = RtNone
    /\ last = Call("none", "none")

\* the machine state m becomes the next state
Install(m) ==
    /\ control' = m.control
    /\ command_status' = m.command_status
    /\ fm_interval' = m.fm_interval
    /\ regs' = m.regs
    /\ guard' = m.guard
    /\ pending_batches' = m.pending_batches
    /\ lists' = m.lists
    /\ ep_manager' = m.ep_manager
    /\ free_bw' = m.free_bw
    /\ batches' = m.batches
    /\ rh_address' = m.rh_address
    /\ manager' = m.manager
    /\ memory' = m.memory

\* the driver has been initialised: hc_init has returned
Running == pc["init"] = "done"

\* hc_init is entered: nothing is set up, the registers are as the
\* firmware left them
InitEntry ==
    /\ control \in [en : {{}, ListEnableBits}, ir : BOOLEAN, hcfs : HCFS]
    /\ command_status \in {{}, {"CLF"}}
    /\ fm_interval \in FmValues
    /\ regs = [hcca |-> "0", bulk_head |-> "0", control_head |-> "0",
               control_current |-> "0", interrupt_enable |-> {},
               interrupt_status |-> {}, periodic_start |-> 0]
    /\ guard = "none"
    /\ pending_batches = << >>
    /\ lists = [y \in TransferTypes |-> << >>]
    /\ ep_manager = [t \in Tuples |-> NoEndpoint]
    /\ free_bw = BandwidthSlots
    /\ rh_address = 0
    /\ manager = {}
    /\ memory = MemoryNone
    /\ batches = [b \in Batches |-> "new"]
    /\ complete = {}
    /\ finished = << >>
    /\ pc = [t \in Tasks |-> IF t = "init" THEN "entry" ELSE "idle"]
    /\ fm_saved = [t \in Tasks |-> 0]
    /\ walk = WalkIdle
    /\ rt = RtNone
    /\ last = Call("none", "none")

\* ------------------------------------------------------------ init task
\* hc_init from its entry to the call of hc_gain_control, or to its early
\* return with an error
InitMemory(pio, epm, failing, hcca_ok) ==
    /\ pc["init"] = "entry"
    /\ LET h == HcInit(pio, epm, failing, hcca_ok)
           m == Exec(Machine, h.sts, "init")
       IN /\ Install(m)
          /\ last' = [Call("hc_init", "init") EXCEPT
                         !.ret = h.ret, !.type = h.failed, !.events = m.events]
          /\ pc' = [pc EXCEPT !["init"] = IF h.ret = "EOK" THEN "gain"
                                          ELSE "failed"]
    /\ UNCHANGED <<complete, finished, fm_saved, walk, rt>>

GainControl ==
    /\ pc["init"] = "gain"
    /\ \E legacy \in BOOLEAN :
          LET h == HcGainControl(Machine, legacy)
              m == Exec(Machine, h.sts, "init")
          IN /\ Install(m)
             /\ pc' = [pc EXCEPT !["init"] = h.next]
             /\ last' = [Call("hc_gain_control", "init") EXCEPT !.events = m.events]
    /\ UNCHANGED <<complete, finished, fm_saved, walk, rt>>

\* the SMM driver gives the controller up once ownership change is requested
SmmRelease ==
    /\ control.ir
    /\ "OCR" \in command_status
    /\ control' = [control EXCEPT !.ir = FALSE]
    /\ last' = Call("smm_release", "hw")
    /\ UNCHANGED <<command_status, fm_interval, regs, guard, pending_batches,
                   lists, ep_manager, free_bw, rh_address, manager, memory, batches, complete,
                   finished, pc, fm_saved, walk, rt>>

GainControlTaken ==
    /\ pc["init"] = "smm_spin"
    /\ ~control.ir
    /\ LET m == Exec(Machine, HcGainControlTaken, "init")
       IN /\ Install(m)
          /\ last' = [Call("hc_gain_control", "init") EXCEPT !.events = m.events]
    /\ pc' = [pc EXCEPT !["init"] = "gained"]
    /\ UNCHANGED <<complete, finished, fm_saved, walk, rt>>

\* hc_init after hc_gain_control: the polling fibril when interrupts are
\* not used, rh_init, then hc_start up to its spin
InitStart ==
    /\ pc["init"] = "gained"
    /\ \E interrupts \in BOOLEAN :
          LET m == Exec(Machine,
                        HcInitEmulator(interrupts)
                        \o << St("rh_init") >> \o HcStartReset(Machine),
                        "init")
          IN /\ Install(m)
             /\ last' = [Call("hc_start", "init") EXCEPT !.events = m.events]
    /\ fm_saved' = [fm_saved EXCEPT !["init"] = fm_interval]
    /\ pc' = [pc EXCEPT !["init"] = "reset_spin"]
    /\ UNCHANGED <<complete, finished, walk, rt>>

\* the registers hc_start programs, as a controller reset leaves them
RegsAfterReset ==
    [hcca |-> "0", bulk_head |-> "0", control_head |-> "0",
     control_current |-> "0", interrupt_enable |-> {},
     interrupt_status |-> {}, periodic_start |-> 0]

\* the controller finishes the reset that HCR asked for and clears HCR: it
\* is then in the suspend state with its registers at their reset values
\* (lists disabled, default frame interval), which is why hc_start saves
\* fm_interval before and programs every register again after the spin;
\* interrupt routing survives the reset
HwReset ==
    /\ "HCR" \in command_status
    /\ command_status' = command_status \ {"HCR"}
    /\ control' = [control EXCEPT !.hcfs = "SUSPEND", !.en = {}]
    /\ fm_interval' = 11999
    /\ regs' = RegsAfterReset
    /\ last' = Call("hw_reset", "hw")
    /\ rt' = RtNone
    /\ UNCHANGED <<guard, pending_batches, lists, ep_manager, free_bw,
                   rh_address, manager, memory, batches, complete, finished, pc, fm_saved,
                   walk>>

\* hc_start leaves its spin and runs to the end
StartRun(t) ==
    /\ pc[t] = "reset_spin"
    /\ "HCR" \notin command_status
    /\ LET m == Exec(Machine, HcStartRun(fm_saved[t]), t)
       IN /\ Install(m)
          /\ last' = [Call("hc_start", t) EXCEPT !.events = m.events,
                                                 !.ret = "returned"]
    /\ fm_saved' = [fm_saved EXCEPT ![t] = 0]
    /\ pc' = [pc EXCEPT ![t] = IF t = "init" THEN "done" ELSE "idle"]
    /\ walk' = IF t = "irq" THEN WalkIdle ELSE walk
    /\ rt' = RtNone
    /\ UNCHANGED <<complete, finished>>

\* --------------------------------------------------------- endpoint calls
AddEndpoint(ep, type) ==
    /\ Running
    /\ \E alloc \in AllocOutcomes(Machine), regfail \in BOOLEAN :
          LET h == HcAddEndpoint(Machine, ep, type, alloc, regfail)
              m == Exec(Machine, h.sts, "caller")
          IN /\ Install(m)
             /\ last' = [Call("hc_add_endpoint", "caller") EXCEPT
                            !.ep = ep, !.type = type, !.ret = h.ret,
                            !.events = m.events]
             /\ rt' = IF h.ret = "EOK"
                      THEN [valid |-> TRUE, ep |-> ep, type |-> type,
                            ep_manager |-> ep_manager,
                            lists |-> lists, en |-> control.en,
                            free_bw |-> free_bw]
                      ELSE rt
    /\ UNCHANGED <<complete, finished, pc, fm_saved, walk>>

\* fibril_mutex_lock at the top blocks the caller while the guard is held
RemoveEndpoint(ep) ==
    /\ Running
    /\ guard = "none"
    /\ LET h == HcRemoveEndpoint(Machine, ep)
           m == Exec(Machine, h.sts, "caller")
       IN /\ Install(m)
          /\ last' = [Call("hc_remove_endpoint", "caller") EXCEPT
                         !.ep = ep, !.ret = h.ret, !.events = m.events]
          /\ rt' = IF h.ret = "EOK" THEN RtNone ELSE rt
    /\ UNCHANGED <<complete, finished, pc, fm_saved, walk>>

\* ------------------------------------------------------------ hub registration
\* hc_register_hub, called once hc_init has returned; the guard is free, so
\* the hc_remove_endpoint of a rollback does not wait
RegisterHub(ddf) ==
    /\ Running
    /\ guard = "none"
    /\ \E hub_address \in FreeAddressOutcomes(Machine),
          alloc \in AllocOutcomes(Machine), regfail \in BOOLEAN :
          LET h == HcRegisterHub(Machine, hub_address, alloc, regfail, ddf)
              m == Exec(Machine, h.sts, "caller")
          IN /\ Install(m)
             /\ last' = [Call("hc_register_hub", "caller") EXCEPT
                            !.address = hub_address, !.ret = h.ret,
                            !.type = h.failed, !.events = m.events]
    /\ rt' = RtNone
    /\ UNCHANGED <<complete, finished, pc, fm_saved, walk>>

\* ------------------------------------------------------------ batch calls
Schedule(b, address, type) ==
    /\ Running
    /\ batches[b] = "new"
    /\ address = rh_address \/ guard = "none"
    /\ LET h == HcSchedule(b, address, type, rh_address)
           m == Exec(Machine, h.sts, "caller")
       IN /\ Install(m)
          /\ last' = [Call("hc_schedule", "caller") EXCEPT
                         !.batch = b, !.address = address, !.type = type,
                         !.ret = h.ret, !.events = m.events]
    /\ UNCHANGED <<complete, finished, pc, fm_saved, walk, rt>>

\* the controller retires the descriptors of a committed batch
HwComplete(b) ==
    /\ batches[b] = "committed"
    /\ b \notin complete
    /\ complete' = complete \cup {b}
    /\ last' = [Call("hw_complete", "hw") EXCEPT !.batch = b]
    /\ UNCHANGED <<control, command_status, fm_interval, regs, guard,
                   pending_batches, lists, ep_manager, free_bw, rh_address, manager, memory,
                   batches, finished, pc, fm_saved, walk, rt>>

\* the controller works on the bulk list: it is operational, the list is
\* enabled and BLF tells it that the list has work; it retires the
\* descriptors of a committed bulk batch and raises WDH
HwRetireBulk(b) ==
    /\ control.hcfs = "OPERATIONAL"
    /\ "BLE" \in control.en
    /\ "BLF" \in command_status
    /\ batches[b] = "committed"
    /\ b \notin complete
    /\ complete' = complete \cup {b}
    /\ regs' = [regs EXCEPT !.interrupt_status = @ \cup {"WDH"}]
    /\ last' = [Call("hw_retire", "hw") EXCEPT !.batch = b]
    /\ UNCHANGED <<control, command_status, fm_interval, guard,
                   pending_batches, lists, ep_manager, free_bw, rh_address,
                   manager, memory, batches, finished, pc, fm_saved, walk, rt>>

\* ------------------------------------------------------------- dispatcher
\* interrupts are dispatched once hc_init has reached hc_start: the polling
\* fibril is ready before hc_start and runs whenever hc_start sleeps
Dispatching == pc["init"] \in {"reset_spin", "done"}

Interrupt(status) ==
    /\ Dispatching
    /\ pc["irq"] = "idle"
    /\ LET h == HcInterruptEntry(Machine, status)
           m == Exec(Machine, h.sts, "irq")
       IN /\ Install(m)
          /\ last' = [Call("hc_interrupt", "irq") EXCEPT
                         !.status = status, !.events = m.events,
                         !.ret = IF h.next = "idle" THEN "returned" ELSE "-"]
          /\ pc' = [pc EXCEPT !["irq"] = h.next]
          /\ walk' = IF h.next = "idle" THEN WalkIdle
                     ELSE [WalkIdle EXCEPT
                              !.status = status,
                              !.current = IF h.next = "walk"
                                          THEN FirstLink(pending_batches) ELSE 0,
                              !.pend0 = IF h.next = "walk"
                                        THEN pending_batches ELSE << >>]
          /\ fm_saved' = [fm_saved EXCEPT
                             !["irq"] = IF h.next = "reset_spin"
                                        THEN fm_interval ELSE 0]
    /\ rt' = RtNone
    /\ UNCHANGED <<complete, finished>>

\* one iteration of the while loop; a complete batch is unlinked and its
\* finish callback entered
WalkStep ==
    /\ pc["irq"] = "walk"
    /\ walk.current # 0
    /\ LET b == walk.current
           c == b \in complete
           m == Exec(Machine, HcInterruptWalk(b, c), "irq")
       IN /\ Install(m)
          /\ last' = [Call("hc_interrupt_walk", "irq") EXCEPT
                         !.batch = b, !.status = walk.status,
                         !.events = m.events]
          /\ walk' = [walk EXCEPT
                         !.current = NextLink(pending_batches, b),
                         !.batch = IF c THEN b ELSE 0,
                         !.visited = Append(walk.visited, <<b, c>>)]
          /\ pc' = [pc EXCEPT !["irq"] = IF c THEN "finish" ELSE "walk"]
    /\ UNCHANGED <<complete, finished, fm_saved, rt>>

\* calls into the driver that a finish callback can make
ReentrantCalls == {"hc_schedule", "hc_remove_endpoint", "hc_get_endpoint"}

\* the handler a finish callback enters
CallbackHandler(m, call, b, ep, type) ==
    CASE call = "hc_schedule" -> HcSchedule(b, ep.address, type, rh_address)
      [] call = "hc_remove_endpoint" -> HcRemoveEndpoint(m, ep)
      [] OTHER -> HcGetEndpoint(m, ep)

\* the finish callback calls back into the driver, on the dispatcher's
\* fibril: the call runs to its return, or waits in fibril_mutex_lock
CallbackReenter(call, b, ep, type) ==
    /\ pc["irq"] = "finish"
    /\ call = "hc_schedule" => batches[b] = "new"
    /\ call # "hc_schedule" => ep \in Tuples
    /\ LET h == CallbackHandler(Machine, call, b, ep, type)
           blocked == Blocks(Machine, h.sts)
           m == IF blocked THEN Machine ELSE Exec(Machine, h.sts, "irq")
       IN /\ Install(m)
          /\ last' = [Call(call, "irq") EXCEPT
                         !.batch = IF call = "hc_schedule" THEN b ELSE 0,
                         !.address = ep.address, !.type = type,
                         !.ret = IF blocked THEN "blocked" ELSE h.ret,
                         !.events = m.events]
          /\ pc' = [pc EXCEPT !["irq"] = IF blocked THEN "blocked" ELSE "finish"]
    /\ UNCHANGED <<complete, finished, fm_saved, walk, rt>>

\* usb_transfer_batch_finish returns
FinishReturn ==
    /\ pc["irq"] = "finish"
    /\ batches' = [batches EXCEPT ![walk.batch] = "finished"]
    /\ finished' = Append(finished, walk.batch)
    /\ walk' = [walk EXCEPT !.batch = 0]
    /\ pc' = [pc EXCEPT !["irq"] = "walk"]
    /\ last' = [Call("usb_transfer_batch_finish", "irq") EXCEPT
                   !.batch = walk.batch, !.ret = "returned"]
    /\ UNCHANGED <<control, command_status, fm_interval, regs, guard,
                   pending_batches, lists, ep_manager, free_bw, rh_address, manager, memory,
                   complete, fm_saved, rt>>

\* the loop has come back to the list head
WalkEnd ==
    /\ pc["irq"] = "walk"
    /\ walk.current = 0
    /\ LET h == HcInterruptAfterWalk(Machine, walk.status)
           m == Exec(Machine, h.sts, "irq")
       IN /\ Install(m)
          /\ last' = [Call("hc_interrupt_end", "irq") EXCEPT
                         !.status = walk.status, !.events = m.events,
                         !.ret = IF h.next = "idle" THEN "returned" ELSE "-"]
          /\ pc' = [pc EXCEPT !["irq"] = h.next]
          /\ walk' = IF h.next = "idle" THEN WalkIdle
                     ELSE [WalkIdle EXCEPT !.status = walk.status]
          /\ fm_saved' = [fm_saved EXCEPT
                             !["irq"] = IF h.next = "reset_spin"
                                        THEN fm_interval ELSE 0]
    /\ rt' = RtNone
    /\ UNCHANGED <<complete, finished>>

\* the controller raises a status bit
HwRaise(bit) ==
    /\ bit \notin regs.interrupt_status
    /\ regs' = [regs EXCEPT !.interrupt_status = @ \cup {bit}]
    /\ last' = [Call("hw_raise", "hw") EXCEPT !.status = {bit}]
    /\ UNCHANGED <<control, command_status, fm_interval, guard,
                   pending_batches, lists, ep_manager, free_bw, rh_address, manager, memory,
                   batches, complete, finished, pc, fm_saved, walk, rt>>

\* the status register is delivered to hc_interrupt by one of the two paths
Deliver(path) ==
    /\ Dispatching
    /\ pc["irq"] = "idle"
    /\ \E h \in {Delivery(path, Machine)} :
       \E m \in {Exec(Machine, h.sts, "irq")} :
          /\ Install(m)
          /\ last' = [Call(path, "irq") EXCEPT
                         !.status = h.status, !.events = m.events,
                         !.ret = IF ~h.accept THEN "declined"
                                 ELSE IF h.next = "idle" THEN "returned"
                                 ELSE "-"]
          /\ pc' = [pc EXCEPT !["irq"] = h.next]
          /\ walk' = IF h.next = "idle" THEN WalkIdle
                     ELSE [WalkIdle EXCEPT
                              !.status = h.status,
                              !.current = IF h.next = "walk"
                                          THEN FirstLink(pending_batches) ELSE 0,
                              !.pend0 = IF h.next = "walk"
                                        THEN pending_batches ELSE << >>]
          /\ fm_saved' = [fm_saved EXCEPT
                             !["irq"] = IF h.next = "reset_spin"
                                        THEN fm_interval ELSE 0]
    /\ rt' = RtNone
    /\ UNCHANGED <<complete, finished>>

\* ------------------------------------------------------------ specifications
\* hc_init from hc_gain_control on, for every value the firmware can have
\* left in the control register
NextInit ==
    \/ GainControl
    \/ SmmRelease
    \/ GainControlTaken
    \/ InitStart
    \/ HwReset
    \/ StartRun("init")

SpecInit == Init /\ [][NextInit]_vars

\* status values the polling fibril can find while hc_init is in hc_start
PolledInputs == {{"SF"}, {"WDH"}, {"UE"}, {"WDH", "UE"}}

\* hc_init with the polling fibril: fibril_add_ready comes before hc_start,
\* so hc_interrupt runs whenever hc_start sleeps in its reset spin, and
\* after hc_init has returned
NextInitPolled ==
    \/ GainControl
    \/ SmmRelease
    \/ GainControlTaken
    \/ InitStart
    \/ HwReset
    \/ StartRun("init")
    \/ \E status \in PolledInputs : Interrupt(status)
    \/ WalkEnd
    \/ StartRun("irq")

SpecInitPolled == Init /\ [][NextInitPolled]_vars

\* a fibril that has been made ready, or whose async_usleep has expired, is
\* run again (weak fairness of every step of hc_init); the reset spin of
\* hc_init polls every 10 us while the polling fibril comes back every 10 ms,
\* so a cleared HCR is seen by the spin before the polling fibril can pulse
\* it again (strong fairness of its exit); the firmware answers OCR and the
\* controller completes a reset (weak fairness of SmmRelease and HwReset)
SpecInitLive ==
    /\ Init
    /\ [][NextInitPolled]_vars
    /\ WF_vars(GainControl)
    /\ WF_vars(GainControlTaken)
    /\ WF_vars(InitStart)
    /\ SF_vars(StartRun("init"))
    /\ WF_vars(StartRun("irq"))
    /\ WF_vars(WalkEnd)
    /\ WF_vars(SmmRelease)
    /\ WF_vars(HwReset)

\* hc_init from its entry, with every outcome of its allocations
NextMemory ==
    \/ \E pio, epm \in {"EOK", "ENOMEM"}, failing \in 0..4, hcca_ok \in BOOLEAN :
          InitMemory(pio, epm, failing, hcca_ok)
    \/ GainControl
    \/ SmmRelease
    \/ GainControlTaken
    \/ InitStart
    \/ HwReset
    \/ StartRun("init")

SpecMemory == InitEntry /\ [][NextMemory]_vars

\* the state hc_init leaves behind when it returns
InitRunning ==
    /\ control = [en |-> ListEnableBits, ir |-> FALSE, hcfs |-> "OPERATIONAL"]
    /\ command_status = {}
    /\ fm_interval = 11999
    /\ regs = [hcca |-> "hcca_pa", bulk_head |-> "bulk_head_pa",
               control_head |-> "control_head_pa", control_current |-> "0",
               interrupt_enable |-> OHCI_USED_INTERRUPTS \cup {"MI"},
               interrupt_status |-> {},
               periodic_start |-> (FrameLength(11999) \div 10) * 9]
    /\ guard = "none"
    /\ pending_batches = << >>
    /\ lists = [y \in TransferTypes |-> << >>]
    /\ ep_manager = [t \in Tuples |-> NoEndpoint]
    /\ free_bw = BandwidthSlots
    /\ rh_address = 0
    /\ manager = {}
    /\ memory = MemoryReady
    /\ batches = [b \in Batches |-> "new"]
    /\ complete = {}
    /\ finished = << >>
    /\ pc = [t \in Tasks |-> IF t = "init" THEN "done" ELSE "idle"]
    /\ fm_saved = [t \in Tasks |-> 0]
    /\ walk = WalkIdle
    /\ rt = RtNone
    /\ last = Call("none", "none")

\* status values the dispatcher is called with
StatusInputs ==
    {{}, {"SF"}, {"SO"}, {"RHSC"}, {"WDH"}, {"UE"}, {"SF", "WDH"},
     {"RHSC", "WDH"}, {"WDH", "UE"}, {"RHSC", "WDH", "UE"}}

\* the interrupt path with no batch complete: entry, the walk back to the
\* list head, and hc_start on UE
NextInterrupt(inputs) ==
    \/ \E status \in inputs : Interrupt(status)
    \/ WalkEnd
    \/ HwReset
    \/ StartRun("irq")

\* endpoints are added and removed while interrupts are dispatched
NextEndpoints ==
    \/ \E ep \in DeviceTuples, type \in TransferTypes : AddEndpoint(ep, type)
    \/ \E ep \in DeviceTuples : RemoveEndpoint(ep)
    \/ NextInterrupt({{"SF"}, {"WDH"}, {"UE"}, {"WDH", "UE"},
                      {"RHSC", "WDH", "UE"}})

SpecEndpoints == InitRunning /\ [][NextEndpoints]_vars

\* batches are scheduled and reaped while interrupts are dispatched
NextBatches ==
    \/ \E b \in Batches, address \in 0..MaxAddress, type \in TransferTypes :
          Schedule(b, address, type)
    \/ \E b \in Batches : HwComplete(b)
    \/ NextInterrupt(StatusInputs)
    \/ WalkStep
    \/ \E call \in ReentrantCalls, b \in Batches, address \in 0..MaxAddress :
          CallbackReenter(call, b,
                          [address |-> address, endpoint |-> 0, direction |-> "IN"],
                          "BULK")
    \/ FinishReturn

SpecBatches == InitRunning /\ [][NextBatches]_vars

\* the controller raises status bits and either path delivers them: the path
\* is fixed by hc_init's interrupts argument, and both are run here from the
\* same states
NextDispatch ==
    \/ \E bit \in StatusBits : HwRaise(bit)
    \/ \E path \in DeliveryPaths : Deliver(path)
    \/ WalkEnd
    \/ HwReset
    \/ StartRun("irq")

SpecDispatch == InitRunning /\ [][NextDispatch]_vars

\* the root hub is registered, and registered again after a failure, while
\* device endpoints come and go
NextHub ==
    \/ \E ddf \in DdfOutcomes : RegisterHub(ddf)
    \/ \E ep \in DeviceTuples, type \in TransferTypes : AddEndpoint(ep, type)
    \/ \E ep \in DeviceTuples : RemoveEndpoint(ep)

SpecHub == InitRunning /\ [][NextHub]_vars

\* bulk batches are scheduled to a device, retired by the controller and
\* reaped by the dispatcher, which is reached from the status register by
\* either delivery path; the controller can raise UE at any time
NextCompletion ==
    \/ \E b \in 1..LiveBatches : Schedule(b, 1, "BULK")
    \/ \E b \in 1..LiveBatches : HwRetireBulk(b)
    \/ \E bit \in {"SF", "UE"} : HwRaise(bit)
    \/ \E path \in DeliveryPaths : Deliver(path)
    \/ WalkStep
    \/ FinishReturn
    \/ WalkEnd
    \/ HwReset
    \/ StartRun("irq")

\* interrupts keep being dispatched, the dispatcher's fibril is resumed
\* after every suspension, the controller completes a reset and retires
\* the descriptors of a list it is working on
SpecCompletion ==
    /\ InitRunning
    /\ [][NextCompletion]_vars
    /\ WF_vars(\E path \in DeliveryPaths : Deliver(path))
    /\ WF_vars(WalkStep)
    /\ WF_vars(FinishReturn)
    /\ WF_vars(WalkEnd)
    /\ WF_vars(StartRun("irq"))
    /\ WF_vars(HwReset)
    /\ \A b \in 1..LiveBatches : WF_vars(HwRetireBulk(b))

\* =================================================================== claims
Events == {last.events[i] : i \in 1..Len(last.events)}

EventIndexes(op) == {i \in 1..Len(last.events) : last.events[i].op = op}

\* C1: an ED is linked into or unlinked from an endpoint list only while the
\* list-enable bit(s) of that list are clear in the control register, whatever
\* the dispatcher is doing at the time (idle, holding the guard in the WDH
\* branch, or inside hc_start on UE).
C1_EnableToggleSafety ==
    \A e \in Events :
        e.op \in ListMutations => EnableBitsOf(e.list) \cap e.en = {}

\* an endpoint is added while hc_start, re-run on UE, sits in its reset spin
C1_Witness ==
    /\ pc["irq"] = "reset_spin"
    /\ last.op = "hc_add_endpoint"
    /\ last.ret = "EOK"
    /\ \E e \in Events : e.op = "list_add"

\* C2: after initialization every statement that changes the pending-batch
\* set, an endpoint list or the list-enable bits is run by a task that holds
\* the instance guard.
C2_GuardCoverage ==
    \A e \in Events :
        (e.by # "init" /\ e.op \in ListMutations \cup PendingMutations \cup EnableWrites)
            => e.guard = e.by

\* C3 as claimed: a scheduled batch is in the pending set exactly once from
\* its commit until its finish callback has returned.
C3_PendingUntilFinishReturns ==
    \A b \in Batches :
        batches[b] \in {"committed", "finishing"} => Count(pending_batches, b) = 1

\* C3 amended: a scheduled batch is in the pending set exactly once from its
\* commit until hc_interrupt unlinks it, which it does before it calls the
\* finish callback; from then on it is not in the set; no batch is ever in
\* the set twice.
C3_PendingUntilUnlinked ==
    \A b \in Batches :
        /\ batches[b] = "committed" => Count(pending_batches, b) = 1
        /\ batches[b] # "committed" => Count(pending_batches, b) = 0

\* a finish callback is running while another batch is still pending
C3_Witness ==
    \E b, c \in Batches :
        /\ batches[b] = "finishing"
        /\ batches[c] = "committed"
        /\ pc["irq"] = "finish"

\* C4: every registered tuple has exactly one ED linked, in the list of its
\* transfer type, and no ED of an unregistered tuple is linked anywhere.
C4_ScheduleReachability ==
    \A t \in Tuples, y \in TransferTypes :
        Count(lists[y], t) = IF ep_manager[t].type = y THEN 1 ELSE 0

\* an endpoint has been removed from a list that still holds another one
C4_Witness ==
    /\ last.op = "hc_remove_endpoint"
    /\ last.ret = "EOK"
    /\ \E y \in TransferTypes : lists[y] # << >>
    /\ \E e \in Events : e.op = "list_remove"

\* the batches the current walk has unlinked, in the order it met them
WalkRemoved ==
    LET hit == SelectSeq(walk.visited, LAMBDA v : v[2])
    IN [i \in 1..Len(hit) |-> hit[i][1]]

\* finish callbacks of the current walk that have returned
WalkReturned ==
    IF pc["irq"] = "finish" THEN Len(WalkRemoved) - 1 ELSE Len(WalkRemoved)

C5_WalkState ==
    pc["irq"] \in {"walk", "finish"} =>
        /\ Len(walk.visited) <= Len(walk.pend0)
        /\ \A i \in 1..Len(walk.visited) : walk.visited[i][1] = walk.pend0[i]
        /\ (pc["irq"] = "walk" /\ walk.current = 0) =>
               Len(walk.visited) = Len(walk.pend0)
        /\ pending_batches =
               SelectSeq(walk.pend0, LAMBDA b : b \notin Range(WalkRemoved))
        /\ Len(finished) >= WalkReturned
        /\ SubSeq(finished, Len(finished) - WalkReturned + 1, Len(finished))
               = SubSeq(WalkRemoved, 1, WalkReturned)
        /\ pc["irq"] = "finish" =>
               /\ walk.batch = WalkRemoved[Len(WalkRemoved)]
               /\ batches[walk.batch] = "finishing"
        /\ \A b \in Batches : Count(finished, b) <= 1

C5_OnlyCompleteLeave ==
    \A b \in Batches :
        (b \in Range(pending_batches) /\ b \notin Range(pending_batches'))
            => b \in complete

\* C5: one hc_interrupt call with WDH visits the pending batches in order,
\* unlinks exactly those for which batch_is_complete was true when visited,
\* calls the finish callback once on each in that order, and leaves the others
\* in their order; nothing ever unlinks a batch that is not complete.
C5_WdhReaping == [] C5_WalkState /\ [][C5_OnlyCompleteLeave]_vars

\* the walk is back at the head: it reaped one batch and left two others,
\* one of which was seen incomplete
C5_Witness ==
    /\ pc["irq"] = "walk"
    /\ walk.current = 0
    /\ Len(WalkRemoved) >= 1
    /\ Len(pending_batches) >= 2
    /\ \E i \in 1..Len(walk.visited) : ~walk.visited[i][2]
    /\ walk.visited[1][2] = FALSE

\* C6: hc_schedule of a batch not addressed to the root hub, once it has the
\* guard, appends the batch and commits it before it writes a list-filled
\* bit, holding the guard for all three; it sets CLF exactly for control
\* batches, BLF exactly for bulk batches and writes command_status for no
\* other type.  (A call still waiting for the guard has done none of this.)
C6_CommitBeforeNudge ==
    (last.op = "hc_schedule" /\ last.address # rh_address
        /\ last.ret # "blocked") =>
        /\ \E i \in EventIndexes("list_append"), j \in EventIndexes("batch_commit") :
              /\ i < j
              /\ last.events[i].batch = last.batch
              /\ last.events[j].batch = last.batch
              /\ last.events[i].guard = "caller"
              /\ last.events[j].guard = "caller"
              /\ \A k \in EventIndexes("command_status_or") :
                    j < k /\ last.events[k].guard = "caller"
        /\ (\E k \in EventIndexes("command_status_or") : "CLF" \in last.events[k].bits)
              <=> last.type = "CONTROL"
        /\ (\E k \in EventIndexes("command_status_or") : "BLF" \in last.events[k].bits)
              <=> last.type = "BULK"
        /\ last.type \notin {"CONTROL", "BULK"} =>
              \A e \in Events :
                  e.op \notin {"command_status_or", "command_status_write"}
        /\ last.type = "CONTROL" => "CLF" \in command_status
        /\ last.type = "BULK" => "BLF" \in command_status
        /\ guard = "none"

\* a bulk batch has been scheduled and BLF is set
C6_Witness ==
    /\ last.op = "hc_schedule"
    /\ last.address # rh_address
    /\ last.type = "BULK"
    /\ "BLF" \in command_status
    /\ last.batch \in Range(pending_batches)

\* the driver state a dispatch may touch
DriverState ==
    <<control, command_status, fm_interval, regs, guard, pending_batches,
      lists, ep_manager, free_bw, rh_address, manager, memory, batches, complete,
      finished, pc, fm_saved, walk>>

\* one step of the property below
C7_IdleDispatchStep ==
    (last' # last /\ last'.op = "hc_interrupt" /\ last'.status \ {"SF"} = {})
        => /\ UNCHANGED DriverState
           /\ last'.events = << >>
           /\ last'.ret = "returned"

\* C7: hc_interrupt with status 0 or with SF alone runs no statement at all
\* and returns: no callback, no lock, no root-hub call, no hc_start, no
\* register write, the pending set untouched.
C7_CompletionIdempotence == [][C7_IdleDispatchStep]_vars

\* SF alone is dispatched while a complete batch waits in the pending set
C7_Witness ==
    /\ last.op = "hc_interrupt"
    /\ last.status = {"SF"}
    /\ \E b \in Batches : b \in Range(pending_batches) /\ b \in complete

\* C8: when hc_gain_control has returned, the functional state is
\* OPERATIONAL, RESET or RESUME and interrupt routing is clear, whatever the
\* control register held on entry.
C8_HandoffPostcondition ==
    pc["init"] = "gained" =>
        /\ control.hcfs \in {"OPERATIONAL", "RESET", "RESUME"}
        /\ ~control.ir

\* hc_gain_control has returned after resuming a controller the BIOS left
\* suspended
C8_Witness ==
    /\ pc["init"] = "gained"
    /\ control.hcfs = "RESUME"
    /\ \E e \in Events : e.op = "hcfs_set" /\ e.hcfs = "RESUME"

\* the step that completes a round trip: a successful hc_remove_endpoint of
\* the tuple whose successful hc_add_endpoint was the last change to the
\* endpoints, with no controller reset, hc_start or hc_interrupt since
RoundTripStep ==
    rt.valid /\ ~rt'.valid /\ last'.op = "hc_remove_endpoint" /\ last'.ep = rt.ep

\* C9: a successful hc_add_endpoint of a tuple followed by a
\* successful hc_remove_endpoint of the same tuple leaves the registrar, the
\* four endpoint lists and the list-enable bits as they were before the add.
C9_AddRemoveRoundTrip ==
    [][RoundTripStep =>
          /\ ep_manager' = rt.ep_manager
          /\ free_bw' = rt.free_bw
          /\ lists' = rt.lists
          /\ control'.en = rt.en]_vars

\* one step of the property below
C10_FailedAddStep ==
    (last'.op = "hc_add_endpoint" /\ last'.ret # "EOK")
        => /\ UNCHANGED <<ep_manager, free_bw, lists, control>>
           /\ last'.ret \in {"ENOMEM", "EOVERFLOW", "EEXISTS"}
           /\ last'.ret = "ENOMEM"
                 \/ \E regfail \in BOOLEAN :
                        last'.ret = RegisterEpResult(Machine, last'.ep, last'.type, regfail)

\* C10: a call of hc_add_endpoint that returns an error leaves the registrar,
\* the four endpoint lists and the control register as they were, and the
\* error is ENOMEM or the code the registrar refused the endpoint with.
C10_FailedAddChangesNothing == [][C10_FailedAddStep]_vars

\* the registrar has refused a periodic endpoint for lack of bandwidth
C10_Witness ==
    /\ last.op = "hc_add_endpoint"
    /\ last.ret = "EOVERFLOW"
    /\ \E t \in Tuples : ep_manager[t] # NoEndpoint


\* statements that write a controller register
RegisterWrites ==
    {"control_and_not", "control_or", "hcfs_set", "command_status_or",
     "command_status_write", "fm_interval_write", "periodic_start_write",
     "interrupt_enable_write", "reg_write"}

\* one step of the property below
C11_UnknownRemoveStep ==
    (last'.op = "hc_remove_endpoint" /\ ep_manager[last'.ep] = NoEndpoint)
        => /\ last'.ret = "ENOENT"
           /\ UNCHANGED <<control, command_status, fm_interval, regs,
                          ep_manager, free_bw, lists>>
           /\ \A i \in 1..Len(last'.events) :
                 last'.events[i].op \notin RegisterWrites \cup ListMutations
           /\ guard' = "none"

\* C11: hc_remove_endpoint of a tuple that is not registered returns ENOENT,
\* writes no controller register, leaves the registrar and the four endpoint
\* lists as they were, and has released the guard when it returns.
C11_RemoveUnknown == [][C11_UnknownRemoveStep]_vars

\* an unregistered tuple has been removed next to a registered, linked one
C11_Witness ==
    /\ last.op = "hc_remove_endpoint"
    /\ last.ret = "ENOENT"
    /\ \E e \in Events : e.op = "lock"
    /\ \E t \in Tuples : ep_manager[t] # NoEndpoint /\ t # last.ep

\* hc_start returns in this step
HcStartReturns == last'.op = "hc_start" /\ last'.ret = "returned"

\* the FI field of the fm_interval value hc_start saved before the reset
SnapshotFI == FrameLength(fm_saved[last'.task])

\* C12 as claimed: hc_start writes to periodic_start 90% of the FI field of
\* the fm_interval value saved before the reset (to within two bit times);
\* for FI = 0x2EDF (11999) the value written is 0x2A2E (10798).
C12_PeriodicStartNinetyPercent ==
    [][HcStartReturns =>
          /\ 9 * SnapshotFI - 10 * regs'.periodic_start \in -20..20
          /\ SnapshotFI = 11999 => regs'.periodic_start = 10798]_vars

\* C12 amended: hc_start writes to periodic_start nine times the integer
\* tenth of the FI field of the fm_interval value saved before the reset: a
\* multiple of nine that is at most 90% of FI and less than nine bit times
\* below it; for FI = 0x2EDF (11999) the value written is 0x2A27 (10791).
C12_PeriodicStartTruncated ==
    [][HcStartReturns =>
          /\ 9 * SnapshotFI - 10 * regs'.periodic_start \in 0..81
          /\ regs'.periodic_start % 9 = 0
          /\ SnapshotFI = 11999 => regs'.periodic_start = 10791]_vars

\* hc_start has returned after saving and restoring the default frame
\* interval 0x2EDF
C12_Witness ==
    /\ last.op = "hc_start"
    /\ last.ret = "returned"
    /\ fm_interval = 11999
    /\ regs.periodic_start = 10791

\* the step of hc_start a logged statement belongs to: 1 save fm_interval,
\* 2 reset, 3 restore fm_interval, 4 publish the HCCA and the list heads,
\* 5 enable the lists, 6 enable interrupts, 7 periodic start, 8 operational;
\* 0 for a statement that is none of them
StartStep(e) ==
    CASE e.op = "fm_interval_read" -> 1
      [] e.op = "command_status_write" /\ e.bits = {"HCR"} -> 2
      [] e.op = "fm_interval_write" -> 3
      [] e.op = "reg_write" /\ e.reg \in {"hcca", "bulk_head", "control_head"} -> 4
      [] e.op = "control_or" -> 5
      [] e.op = "interrupt_enable_write" -> 6
      [] e.op = "periodic_start_write" -> 7
      [] e.op = "hcfs_set" -> 8
      [] OTHER -> 0

\* the steps of hc_start in the log, in the order they ran
StartSteps(events) ==
    LET all == [i \in 1..Len(events) |-> StartStep(events[i])]
    IN SelectSeq(all, LAMBDA n : n # 0)

\* the steps are in order and every step from first to final is there
InOrder(steps, first, final) ==
    /\ \A i \in 1..(Len(steps) - 1) : steps[i] <= steps[i + 1]
    /\ Range(steps) = first..final

\* one step of the property below: hc_start up to its reset spin, and
\* hc_start from the reset spin to its return
C13_StartStep ==
    /\ (last'.op \in {"hc_start", "hc_interrupt", "hc_interrupt_end"}
           /\ pc'[last'.task] = "reset_spin")
         => /\ InOrder(StartSteps(last'.events), 1, 2)
            /\ fm_saved'[last'.task] = fm_interval
            /\ "HCR" \in command_status'
    /\ HcStartReturns
         => /\ "HCR" \notin command_status
            /\ InOrder(StartSteps(last'.events), 3, 8)
            /\ \A i \in 1..Len(last'.events) :
                  /\ last'.events[i].op = "control_or"
                        => /\ last'.events[i].bits = ListEnableBits
                           /\ {"hcca", "bulk_head", "control_head"} \subseteq
                                 {last'.events[j].reg : j \in 1..(i - 1)}
                  /\ last'.events[i].op = "hcfs_set"
                        => /\ last'.events[i].hcfs = "OPERATIONAL"
                           /\ i = Len(last'.events)
            /\ control.hcfs # "OPERATIONAL"
            /\ fm_interval' = fm_saved[last'.task]
            /\ regs'.hcca = "hcca_pa"
            /\ regs'.bulk_head = "bulk_head_pa"
            /\ regs'.control_head = "control_head_pa"
            /\ control'.en = ListEnableBits
            /\ control'.hcfs = "OPERATIONAL"

\* C13: every run of hc_start saves fm_interval, writes HCR and waits until
\* the controller has cleared it, restores fm_interval, publishes the HCCA
\* and the bulk and control heads, sets PLE, IE, CLE and BLE, enables
\* interrupts, writes periodic_start and makes the controller OPERATIONAL, in
\* this order; on return fm_interval is the saved value and all four
\* list-enable bits are set.
C13_StartOrdering == [][C13_StartStep]_vars

\* hc_start has returned after a reset that replaced a calibrated frame
\* interval and cleared the list-enable bits
C13_Witness ==
    /\ last.op = "hc_start"
    /\ last.ret = "returned"
    /\ fm_interval = 12010
    /\ control.en = ListEnableBits

\* C14: when hc_start returns the interrupts enabled in the controller are
\* exactly SO, WDH, UE and RHSC together with the master enable MI: writing MI
\* does not disable the four written just before it, and SF is not enabled.
C14_InterruptEnabling ==
    (last.op = "hc_start" /\ last.ret = "returned")
        => /\ regs.interrupt_enable = {"SO", "WDH", "UE", "RHSC", "MI"}
           /\ \E i, j \in 1..Len(last.events) :
                 /\ i < j
                 /\ last.events[i].op = "interrupt_enable_write"
                 /\ last.events[i].bits = {"SO", "WDH", "UE", "RHSC"}
                 /\ last.events[j].op = "interrupt_enable_write"
                 /\ last.events[j].bits = {"MI"}

\* hc_start has returned after a reset that had disabled every interrupt
C14_Witness ==
    /\ last.op = "hc_start"
    /\ last.ret = "returned"
    /\ pc["init"] = "done"
    /\ "MI" \in regs.interrupt_enable

\* one step of the property below: hc_gain_control from its entry, and
\* everything that happens while it spins on interrupt routing
C15_HandoffStep ==
    /\ (pc["init"] = "gain" /\ pc'["init"] # "gain")
         => IF control.ir
            THEN /\ command_status' = command_status \cup {"OCR"}
                 /\ control' = control
                 /\ pc'["init"] = "smm_spin"
            ELSE /\ command_status' = command_status
                 /\ "OCR" \notin command_status'
                 /\ \A i \in 1..Len(last'.events) :
                       last'.events[i].op \notin
                           {"command_status_or", "command_status_write"}
                 /\ pc'["init"] = "gained"
    /\ (pc["init"] = "smm_spin"
           /\ (control'.hcfs # control.hcfs \/ pc'["init"] # "smm_spin"))
         => /\ ~control.ir
            /\ control'.hcfs = "RESET"
            /\ pc'["init"] = "gained"
            /\ \A i \in 1..Len(last'.events) :
                  last'.events[i].op = "hcfs_set"
                      => last'.events[i].hcfs = "RESET"

\* C15: when hc_gain_control finds interrupt routing set it sets OCR in
\* command_status, keeping the other bits, does not write the functional
\* state until it has seen interrupt routing clear, then sets the functional
\* state to RESET and returns without entering the BIOS branches; when
\* interrupt routing is clear on entry it never sets OCR.
C15_SmmHandoffOrdering == [][C15_HandoffStep]_vars

\* the SMM driver has given up a suspended controller whose command_status
\* had a bit set, and hc_gain_control has put it into RESET
C15_Witness ==
    /\ pc["init"] = "gained"
    /\ last.op = "hc_gain_control"
    /\ ~control.ir
    /\ control.hcfs = "RESET"
    /\ command_status = {"CLF", "OCR"}
    /\ \E e \in Events : e.op = "hcfs_set"

\* the list-current register of the control and of the bulk list
CurrentRegisterOf(type) ==
    IF type = "CONTROL" THEN "control_current" ELSE "bulk_current"

\* C16: every hc_add_endpoint and hc_remove_endpoint of a control or bulk
\* endpoint writes zero to the list-current register of that list after the
\* list mutation and before the list-enable bit is set again; for interrupt
\* and isochronous endpoints PLE and IE are both cleared before the mutation
\* and both set after it.
C16_ListCurrentReset ==
    \A i \in 1..Len(last.events) :
        LET e == last.events[i]
            SetsEnable(k) ==
                /\ last.events[k].op = "control_or"
                /\ EnableBitsOf(e.list) \subseteq last.events[k].bits
        IN e.op \in ListMutations =>
              IF IsPeriodic(e.list)
              THEN /\ \E h \in 1..(i - 1) :
                         /\ last.events[h].op = "control_and_not"
                         /\ {"PLE", "IE"} \subseteq last.events[h].bits
                   /\ \E k \in (i + 1)..Len(last.events) : SetsEnable(k)
              ELSE \E j \in (i + 1)..Len(last.events) :
                      /\ last.events[j].op = "reg_write"
                      /\ last.events[j].reg = CurrentRegisterOf(e.list)
                      /\ last.events[j].addr = "0"
                      /\ \A k \in (i + 1)..j : ~SetsEnable(k)
                      /\ \E k \in (j + 1)..Len(last.events) : SetsEnable(k)

\* positions in the log of the statement that starts hc_start's reset
ResetWrites(events) ==
    {i \in 1..Len(events) :
        events[i].op = "command_status_write" /\ events[i].bits = {"HCR"}}

\* one step of the property below
C17_RecoveryStep ==
    /\ last'.task = "irq"
         => /\ lists' = lists
            /\ \A i \in 1..Len(last'.events) :
                  last'.events[i].op \notin ListMutations
    /\ (pc'["irq"] = "reset_spin" /\ pc["irq"] # "reset_spin")
         => /\ "UE" \in last'.status
            /\ Cardinality(ResetWrites(last'.events)) = 1
            /\ \A i \in ResetWrites(last'.events), j \in 1..Len(last'.events) :
                  last'.events[j].op \in {"rh_interrupt", "lock", "unlock"}
                      => j < i
            /\ "RHSC" \in last'.status /\ "WDH" \notin last'.status
                  => \E j \in 1..Len(last'.events) :
                        last'.events[j].op = "rh_interrupt"
            /\ "WDH" \in last'.status
                  => /\ pc["irq"] = "walk"
                     /\ walk.current = 0
                     /\ \E j \in 1..Len(last'.events) :
                           last'.events[j].op = "unlock"
    /\ (pc["irq"] # "idle" /\ pc'["irq"] = "idle")
         => IF "UE" \in walk.status
            THEN /\ pc["irq"] = "reset_spin"
                 /\ last'.op = "hc_start"
                 /\ control'.en = ListEnableBits
                 /\ control'.hcfs = "OPERATIONAL"
            ELSE /\ pc["irq"] = "walk"
                 /\ ResetWrites(last'.events) = {}
    /\ (pc["irq"] = "idle" /\ pc'["irq"] = "idle" /\ last'.op = "hc_interrupt")
         => /\ "UE" \notin last'.status
            /\ ResetWrites(last'.events) = {}

\* C17: hc_interrupt with the UE bit set runs hc_start exactly once, after
\* the RHSC and WDH branches of the same call; it does not add, remove or
\* reorder an endpoint descriptor in any of the four lists, and when it
\* returns all four list-enable bits are set and the controller is
\* OPERATIONAL.
C17_UeRecovery == [][C17_RecoveryStep]_vars

\* hc_start, re-run by hc_interrupt, has returned with an endpoint linked
C17_Witness ==
    /\ last.op = "hc_start"
    /\ last.task = "irq"
    /\ last.ret = "returned"
    /\ pc["irq"] = "idle"
    /\ \E y \in TransferTypes : lists[y] # << >>

\* what a delivery by the given path would do in the current state: the
\* status bits it acknowledges, the status register it leaves, and the
\* dispatcher's effects (the driver state and where hc_interrupt continues)
DeliveryOutcome(path) ==
    LET h == Delivery(path, Machine)
        m == Exec(Machine, h.sts, "irq")
        w == {i \in 1..Len(m.events) : m.events[i].op = "interrupt_status_write"}
    IN [ack |-> UNION {m.events[i].bits : i \in w},
        interrupt_status |-> m.regs.interrupt_status,
        called |-> h.accept,
        effects |-> [m EXCEPT !.events = << >>, !.regs.interrupt_status = {}],
        calls |-> SelectSeq(m.events, LAMBDA e : e.op \notin
                     {"interrupt_status_read", "interrupt_status_write"}),
        next |-> h.next]

\* C18 as claimed: for every value of the status register a delivery by the
\* polling emulator makes the same acknowledgement write and has the same
\* dispatcher effects as a delivery by the IRQ commands, status 0 and status
\* with only unhandled bits such as SF included.
C18_PollingIrqEquivalence ==
    (Dispatching /\ pc["irq"] = "idle")
        => LET irq == DeliveryOutcome("ohci_irq_commands")
               emu == DeliveryOutcome("interrupt_emulator")
           IN /\ emu.ack = irq.ack
              /\ emu.interrupt_status = irq.interrupt_status
              /\ emu.effects = irq.effects
              /\ emu.calls = irq.calls
              /\ emu.next = irq.next

\* C18 amended: for every value of the status register the two paths have
\* the same dispatcher effects; when the value has one of SO, WDH, UE, RHSC
\* both write it back and call hc_interrupt with it; when it has none the IRQ
\* commands write nothing and decline, while the emulator still writes the
\* value back (acknowledging SF) and calls hc_interrupt, which returns at
\* once.
C18_PollingIrqSameEffects ==
    (Dispatching /\ pc["irq"] = "idle")
        => LET irq == DeliveryOutcome("ohci_irq_commands")
               emu == DeliveryOutcome("interrupt_emulator")
               status == regs.interrupt_status
           IN /\ emu.effects = irq.effects
              /\ emu.calls = irq.calls
              /\ emu.next = irq.next
              /\ emu.called
              /\ emu.ack = status
              /\ emu.interrupt_status = {}
              /\ IF status \cap OHCI_USED_INTERRUPTS # {}
                 THEN /\ irq.called
                      /\ irq.ack = status
                      /\ irq.interrupt_status = {}
                 ELSE /\ ~irq.called
                      /\ irq.ack = {}
                      /\ irq.interrupt_status = status
                      /\ emu.next = "idle"
                      /\ emu.calls = << >>

\* the emulator has delivered WDH|RHSC and acknowledged both
C18_Witness ==
    /\ last.op = "interrupt_emulator"
    /\ last.status = {"WDH", "RHSC"}
    /\ regs.interrupt_status = {}
    /\ \E e \in Events : e.op = "interrupt_status_write" /\ e.bits = {"WDH", "RHSC"}
    /\ \E e \in Events : e.op = "rh_interrupt"

\* one step of the property below
C19_ReentryStep ==
    /\ (pc["irq"] = "finish" /\ last'.op \in ReentrantCalls /\ last'.task = "irq")
         => IF last'.op = "hc_schedule" /\ last'.address = rh_address
            THEN pc'["irq"] = "finish"
            ELSE /\ pc'["irq"] = "blocked"
                 /\ last'.ret = "blocked"
                 /\ UNCHANGED DriverState \/ pc' # pc
                 /\ pending_batches' = pending_batches
                 /\ batches' = batches
    /\ pc["irq"] = "blocked"
         => /\ pc'["irq"] = "blocked"
            /\ guard' = "irq"
            /\ finished' = finished
    /\ (guard = "irq" /\ guard' # "irq") => last'.task = "irq"

\* C19: every finish callback fired by hc_interrupt runs while the
\* dispatching task holds the guard; a callback that calls hc_schedule with a
\* batch not for the root hub, hc_remove_endpoint or hc_get_endpoint on the
\* same instance waits for the guard its own task holds, never gets it, and
\* the dispatch never completes.
C19_CallbacksUnderGuard ==
    /\ [](pc["irq"] \in {"finish", "blocked"} => guard = "irq")
    /\ [][C19_ReentryStep]_vars

\* a finish callback has called hc_schedule and waits for the guard
C19_Witness ==
    /\ pc["irq"] = "blocked"
    /\ last.op = "hc_schedule"
    /\ last.ret = "blocked"
    /\ guard = "irq"
    /\ walk.batch # 0

\* one step of the property below
C20_RollbackStep ==
    (last'.op = "hc_register_hub"
        /\ last'.type \in {"hc_add_endpoint", "ddf_fun_add_match_id", "ddf_fun_bind"})
        => /\ last'.ret # "EOK"
           /\ last'.type = "hc_add_endpoint"
                 => last'.ret \in {"ENOMEM", "EOVERFLOW", "EEXISTS"}
           /\ last'.type = "ddf_fun_add_match_id" => last'.ret = "ENOMEM"
           /\ last'.type = "ddf_fun_bind" => last'.ret = "EREFUSED"
           /\ ep_manager'[HubEndpoint(last'.address)] = NoEndpoint
           /\ \A y \in TransferTypes :
                 HubEndpoint(last'.address) \notin Range(lists'[y])
           /\ last'.address \notin manager'
           /\ free_bw' = free_bw
           /\ guard' = "none"

\* C20: when hc_register_hub fails at hc_add_endpoint, at
\* ddf_fun_add_match_id or at ddf_fun_bind, it returns that step's error
\* code with endpoint 0 of the hub address neither registered nor linked in
\* the control list, and with the hub address released.
C20_HubRegistrationRollback == [][C20_RollbackStep]_vars

\* ddf_fun_bind has failed after the hub's endpoint had been added next to a
\* device endpoint, and the rollback has unlinked it
C20_Witness ==
    /\ last.op = "hc_register_hub"
    /\ last.type = "ddf_fun_bind"
    /\ last.ret = "EREFUSED"
    /\ \E e \in Events : e.op = "list_remove" /\ e.ep = HubEndpoint(last.address)
    /\ \E e \in Events : e.op = "usb_device_keeper_release"
    /\ lists["CONTROL"] # << >>

\* one step of the property below
C21_AllocationFailureStep ==
    (last'.op = "hc_register_hub" /\ last'.address <= 0)
        => /\ last'.ret # "EOK"
           /\ UNCHANGED <<manager, ep_manager, lists, rh_address, free_bw>>
           /\ \A i \in 1..Len(last'.events) :
                 last'.events[i].op \notin
                     {"usb_device_keeper_bind", "rh_address_write",
                      "usb_endpoint_manager_register_ep", "list_add"}

\* C21: whenever the address allocator returns zero or a negative value,
\* hc_register_hub returns a code other than EOK, binds no address, adds no
\* endpoint and leaves the root-hub address as it was.
C21_AddressAllocationFailure == [][C21_AllocationFailureStep]_vars


\* one step of the property below
C22_ForwardStep ==
    (last'.op = "hc_schedule" /\ last'.ret # "blocked")
        => LET ev == last'.events
               ops == {ev[i].op : i \in 1..Len(ev)}
           IN IF last'.address = rh_address
              THEN /\ Cardinality({i \in 1..Len(ev) :
                        ev[i].op = "rh_request" /\ ev[i].batch = last'.batch}) = 1
                   /\ last'.ret = "EOK"
                   /\ ops \cap {"lock", "unlock", "list_append", "batch_commit",
                                 "command_status_or", "command_status_write"} = {}
                   /\ UNCHANGED <<guard, pending_batches, command_status>>
                   /\ batches'[last'.batch] = "rh"
              ELSE /\ last'.batch \in Range(pending_batches')
                   /\ last'.batch \notin Range(pending_batches)
                   /\ "rh_request" \notin ops
                   /\ batches'[last'.batch] # "rh"

\* C22: hc_schedule of a batch addressed to the root hub hands it to
\* rh_request exactly once and returns EOK with no lock, no append to the
\* pending set, no batch_commit and no write of command_status; every other
\* batch is appended to the pending set and is never handed to the root hub.
C22_RootHubForwarding ==
    /\ [][C22_ForwardStep]_vars
    /\ [](\A b \in Batches : batches[b] = "rh" => b \notin Range(pending_batches))

\* a batch went to the root hub while another batch is pending
C22_Witness ==
    /\ last.op = "hc_schedule"
    /\ last.address = rh_address
    /\ batches[last.batch] = "rh"
    /\ \E e \in Events : e.op = "rh_request"
    /\ pending_batches # << >>


\* one delivery by the IRQ program
C23_FilterStep ==
    (last'.op = "ohci_irq_commands" /\ Dispatching /\ pc["irq"] = "idle")
        => LET ev == last'.events
               value == regs.interrupt_status
               handled == value \cap {"SO", "WDH", "UE", "RHSC"}
               accepted == last'.ret # "declined"
           IN /\ Len(ev) >= 1
              /\ ev[1].op = "interrupt_status_read"
              /\ ev[1].bits = value
              /\ last'.status = value
              /\ accepted <=> handled # {}
              /\ accepted => /\ Len(ev) >= 2
                              /\ ev[2].op = "interrupt_status_write"
                              /\ ev[2].bits = value
              /\ ~accepted => /\ Len(ev) = 1
                               /\ regs' = regs
                               /\ pc' = pc
                               /\ UNCHANGED DriverState

\* C23: for every value of the interrupt-status register the IRQ program
\* made by hc_get_irq_commands accepts exactly when one of SO, WDH, UE, RHSC
\* is set; when it accepts it has first written the value read back to the
\* status register, when it declines it has written nothing; commands 0 and
\* 3 both address the interrupt-status register.
C23_IrqProgramFiltering ==
    /\ [][C23_FilterStep]_vars
    /\ [](/\ IrqCode[1].cmd = "CMD_MEM_READ_32"
          /\ IrqCode[1].addr = "interrupt_status"
          /\ IrqCode[4].cmd = "CMD_MEM_WRITE_A_32"
          /\ IrqCode[4].addr = "interrupt_status")

\* the program has accepted a value with a handled and an unhandled bit and
\* its write has cleared both
C23_Witness ==
    /\ last.op = "ohci_irq_commands"
    /\ last.ret # "declined"
    /\ {"SF", "WDH"} \subseteq last.status
    /\ regs.interrupt_status = {}
    /\ \E e \in Events : e.op = "interrupt_status_write"


\* a task leaves a spin loop only on the condition the loop tests
C24_SpinStep ==
    /\ (pc["init"] = "smm_spin" /\ pc'["init"] # "smm_spin") => ~control.ir
    /\ \A t \in Tasks :
          (pc[t] = "reset_spin" /\ pc'[t] # "reset_spin")
              => "HCR" \notin command_status
    /\ (pc["init"] # "done" /\ pc'["init"] = "done") => pc["init"] = "reset_spin"

\* C24: hc_init returns, given that the firmware clears interrupt routing
\* once OCR is set and the controller clears HCR once hc_start has set it;
\* hc_gain_control leaves its spin only with interrupt routing clear and
\* hc_start leaves its spin only with HCR clear, there is no other way out.
C24_InitializationTermination ==
    /\ <>(pc["init"] = "done")
    /\ [][C24_SpinStep]_vars

\* hc_init has returned from hc_start after the reset spin
C24_Witness ==
    /\ pc["init"] = "done"
    /\ last.op = "hc_start"
    /\ last.task = "init"
    /\ last.ret = "returned"
    /\ "HCR" \notin command_status
    /\ control.hcfs = "OPERATIONAL"


\* positions of the statements op on list y in the log of the last segment
ListEvents(events, op, y) ==
    {i \in 1..Len(events) : events[i].op = op /\ events[i].list = y}

\* one step of the property below
C25_RollbackStep ==
    /\ (last'.op = "hc_init" /\ last'.type = "hc_init_memory")
          => /\ last'.ret # "EOK"
             /\ \A y \in TransferTypes :
                   \A i \in ListEvents(last'.events, "endpoint_list_init", y) :
                       \E j \in ListEvents(last'.events, "endpoint_list_fini", y) :
                           i < j
             /\ memory'.lists = {}
             /\ pc'["init"] = "failed"
             /\ UNCHANGED <<control, command_status, fm_interval, regs>>
             /\ \A i \in 1..Len(last'.events) :
                   last'.events[i].op \notin
                       {"fibril_create", "fibril_add_ready", "rh_init",
                        "command_status_or", "command_status_write",
                        "hcfs_set", "reg_write", "control_or"}
    /\ pc["init"] = "failed"
          => /\ pc'["init"] = "failed"
             /\ UNCHANGED <<control, command_status, fm_interval, regs>>

\* C25: when hc_init_memory fails, because a list cannot be initialised or
\* because the HCCA cannot be allocated after the four lists were, every
\* list that had been initialised is finalised before the error is returned,
\* and hc_init returns the error without hc_gain_control, hc_start, the
\* polling fibril or any register write.
C25_MemorySetupRollback == [][C25_RollbackStep]_vars


\* the tasks that are inside hc_start, suspended in its reset spin
InHcStart == {t \in Tasks : pc[t] = "reset_spin"}

\* C26: at most one execution of hc_start is in progress on the instance;
\* while hc_init is suspended in the reset spin of hc_start, neither the
\* polling fibril nor an interrupt dispatch carrying UE begins a second one.
C26_SingleStartInProgress == Cardinality(InHcStart) <= 1


\* the controller stops raising status bits on its own: from some point on
\* no step is a spontaneous SF or UE
HardwareQuiet == <>[](last.op # "hw_raise")

\* C27: every batch that hc_schedule has appended to the pending set is
\* eventually removed from it and has its finish callback called, as long
\* as interrupts keep being dispatched; also when a UE interrupt makes the
\* driver run hc_start again while the batch is pending (the controller
\* raising UE only finitely often).
C27_EventualCompletion ==
    HardwareQuiet
        => \A b \in 1..LiveBatches :
               (b \in Range(pending_batches))
                   ~> (b \notin Range(pending_batches) /\ b \in Range(finished))
====
